---- MODULE Spec2Model ----
(***************************************************************************)
(* Radiology workflow simulator: the session-scoped workflow state store   *)
(* (simlib/storage.py), the tenant visibility rule (orthanc_helpers.py,    *)
(* simlib/dicom_receiver.py, routes_pacs.py) and the image-receipt         *)
(* listener (simlib/dicom_receiver.py).                                    *)
(*                                                                         *)
(* A Python str is a sequence of one-character strings; a dict is a        *)
(* function whose DOMAIN is the set of keys present; None is the value     *)
(* dict.get returns for an absent key.                                     *)
(***************************************************************************)
EXTENDS Naturals, Integers, Sequences, FiniteSets, TLC

VARIABLES
    session,          \* Flask session of each browser: its 'student_code' (<<>> when absent)
    files,            \* DATA_DIR: file path -> the JSON document stored there
    now,              \* the wall clock, in whole seconds (isoformat(timespec='seconds'))
    registeredUnder,  \* history: <<path, pid, code>> for each record and the tenant that registered it
    firstAt,          \* history: <<path, pid, stage key>> -> clock of the first entry since the last order
    prevStatus,       \* history: <<path, pid>> -> last_exam.status before the latest transition
    orthanc,          \* the archive: its studies, series and instances by archive id
    response,         \* the last response of a read route: what it returned, and to which tenant
    RECEIVED_IMAGES,  \* dicom_receiver.RECEIVED_IMAGES, the list of received-image records
    _scp_thread_started, \* dicom_receiver._scp_thread_started
    scpThreads,       \* number of listener threads started so far
    ensure,           \* position of each thread inside ensure_store_scp_thread_started
    handler,          \* each association thread of the listener inside handle_store
    reader,           \* each request thread inside received_images_for_code
    notified,         \* history: number of store notifications delivered to handle_store
    locks,            \* storage._SESSIONS_LOCK, _PATIENTS_LOCK and _REPORTS_LOCK: the holder, or "free"
    worker,           \* each request thread inside a mutating store operation
    applied,          \* history: the store operations begun and those that have returned
    disk,             \* the bytes of the files of DATA_DIR: path -> the chunks written so far
    saver,            \* the thread inside save_patients, save_reports or save_session_codes
    inserted,         \* history: path -> the entries added to the document as new ones, in order
    is_admin,         \* session['is_admin'] of each browser
    page,             \* the response to the last page request, and what was requested
    norm,             \* a raw code and the results of normalizing it once and twice
    gen,              \* a run of generate_session_codes: its argument and the tokens drawn so far
    named,            \* a tenant code and the file paths computed for it
    called            \* the last call of a store function: its name, argument and how it ended

pacsVars == <<orthanc, response>>
startVars == <<_scp_thread_started, scpThreads, ensure>>
scpVars == <<RECEIVED_IMAGES, startVars, handler, reader, notified>>
lockVars == <<locks, worker, applied>>
saveVars == <<disk, saver>>
extVars == <<pacsVars, scpVars, lockVars, saveVars>>
webVars == <<session, files, now, registeredUnder, firstAt, prevStatus>>
pureVars == <<norm, gen, named>>
auxVars == <<inserted, is_admin, page, called, pureVars>>
vars == <<webVars, extVars, auxVars>>

-----------------------------------------------------------------------------
(* Python str helpers *)

Upper == {"A","B","C","D","E","F","G","H","I","J","K","L","M",
          "N","O","P","Q","R","S","T","U","V","W","X","Y","Z"}
Lower == {"a","b","c","d","e","f","g","h","i","j","k","l","m",
          "n","o","p","q","r","s","t","u","v","w","x","y","z"}
Digit == {"0","1","2","3","4","5","6","7","8","9"}
Whitespace == {" ", "\t", "\n"}

RECURSIVE LStrip(_)
LStrip(s) == IF s # <<>> /\ Head(s) \in Whitespace THEN LStrip(Tail(s)) ELSE s

RECURSIVE RStrip(_)
RStrip(s) ==
    IF s # <<>> /\ s[Len(s)] \in Whitespace THEN RStrip(SubSeq(s, 1, Len(s) - 1)) ELSE s

\* str.strip()
Strip(s) == RStrip(LStrip(s))

\* s[:n]
Prefix(s, n) == SubSeq(s, 1, IF Len(s) < n THEN Len(s) ELSE n)

\* s[-n:]
LastN(s, n) == IF Len(s) <= n THEN s ELSE SubSeq(s, Len(s) - n + 1, Len(s))

\* str.startswith
StartsWith(s, p) == Len(p) <= Len(s) /\ SubSeq(s, 1, Len(p)) = p

\* re.sub of a one-character class by the empty string
RemoveChars(s, Bad(_)) == SelectSeq(s, LAMBDA c : ~Bad(c))

\* re.sub / str.replace of a one-character class by one character
ReplaceChars(s, Bad(_), by) == [i \in 1..Len(s) |-> IF Bad(s[i]) THEN by ELSE s[i]]

-----------------------------------------------------------------------------
(* simlib/config.py, simlib/util.py *)

CodeMaxLen == 24
FileMaxLen == 64

\* STUDENT_CODE_RE = [^A-Za-z0-9_-]
STUDENT_CODE_RE(c) == c \notin (Upper \cup Lower \cup Digit \cup {"_", "-"})

\* SAFE_FILENAME_RE = [^A-Za-z0-9_.-]
SAFE_FILENAME_RE(c) == c \notin (Upper \cup Lower \cup Digit \cup {"_", ".", "-"})

\* a normalization that keeps every character that is left after the removal
NormalizeNoTruncate(raw) ==
    IF raw = <<>> THEN <<>> ELSE RemoveChars(Strip(raw), STUDENT_CODE_RE)

normalize_student_code(raw) ==
    IF raw = <<>> THEN <<>>
    ELSE Prefix(RemoveChars(Strip(raw), STUDENT_CODE_RE), CodeMaxLen)

IsSlash(c) == c \in {"/", "\\"}

\* a component that keeps the separators
UnsafeFilenameComponent(value) ==
    LET v4 == Prefix(Strip(value), FileMaxLen)
    IN  IF v4 = <<>> THEN <<"i","t","e","m">> ELSE v4

safe_filename_component(value) ==
    LET v1 == Strip(value)
        v2 == ReplaceChars(v1, IsSlash, "-")
        v3 == ReplaceChars(v2, SAFE_FILENAME_RE, "_")
        v4 == Prefix(v3, FileMaxLen)
    IN  IF v4 = <<>> THEN <<"i","t","e","m">> ELSE v4

-----------------------------------------------------------------------------
(* Python dict helpers: a dict is a function over the keys present *)

EmptyDict == [k \in {} |-> 0]

Put(d, k, v) == [x \in DOMAIN d \cup {k} |-> IF x = k THEN v ELSE d[x]]

\* dict.pop(k, None)
Pop(d, k) == [x \in DOMAIN d \ {k} |-> d[x]]

\* bool(d.get(k)) for a timestamp key: the value stored is isoformat(now), a
\* non-empty string (modelled by its count of seconds), so it is true iff present
Truthy(d, k) == k \in DOMAIN d

-----------------------------------------------------------------------------
(* simlib/students.py *)

\* get_student_code(): normalize_student_code(session.get('student_code'))
get_student_code(sess) == normalize_student_code(sess)

\* a prefixing that returns what was typed
PrefixNever(value, sess) == Strip(value)

prefix_for_student(value, sess) ==
    LET v == Strip(value)
        code == get_student_code(sess)
        prefix == code \o <<"-">>
    IN  IF v = <<>> THEN v
        ELSE IF code = <<>> THEN v
        ELSE IF StartsWith(v, prefix) THEN v
        ELSE code \o <<"-">> \o v

-----------------------------------------------------------------------------
(* simlib/storage.py: the per-tenant patients document *)

DATA_DIR == <<"/","d","/">>
DefaultName == <<"d","e","f","a","u","l","t">>
ItemName == <<"i","t","e","m">>

\* a file name made of the first four characters of the code
PatientsFileShortened(code) ==
    DATA_DIR \o <<"p","a","t","i","e","n","t","s","_">>
             \o Prefix(safe_filename_component(code), 4) \o <<".","j","s","o","n">>

patients_file_for_code(code) ==
    LET safe0 == safe_filename_component(code)
        safe == IF safe0 = <<>> \/ safe0 = ItemName THEN DefaultName ELSE safe0
    IN  DATA_DIR \o <<"p","a","t","i","e","n","t","s","_">> \o safe \o <<".","j","s","o","n">>

reports_file_for_code(code) ==
    LET safe0 == safe_filename_component(code)
        safe == IF safe0 = <<>> \/ safe0 = ItemName THEN DefaultName ELSE safe0
    IN  DATA_DIR \o <<"r","e","p","o","r","t","s","_">> \o safe \o <<".","j","s","o","n">>

\* patients[-50:], with the retention scaled to the model's size
KeepLast == 2

\* A file the program wrote holds a JSON object whose item key ('patients',
\* 'reports' or 'codes') maps to a list.  A file damaged from outside is the
\* record [malformed |-> kind]: "unreadable" (open raises), "not json"
\* (json.load raises), "not an object" (the JSON value is not a dict) or
\* "item not a list" (a dict whose item key maps to something else).
Malformations == {"unreadable", "not json", "not an object", "item not a list"}
Shape(doc) == IF "malformed" \in DOMAIN doc THEN doc.malformed ELSE "object"

\* how a call ends: by raising, or by returning a value
Raised == [raised |-> TRUE, value |-> <<>>]
Returned(v) == [raised |-> FALSE, value |-> v]

\* the body of the try block of load_patients / load_reports once the file is
\* known to exist (lines 117-120, 238-241), and the part of load_session_codes
\* before its cleaning loop (lines 29-33)
ReadList(doc, item) ==
    IF Shape(doc) \in {"unreadable", "not json"} THEN Raised
    ELSE IF Shape(doc) = "not an object" THEN Returned(<<>>)
    ELSE IF item \notin DOMAIN doc THEN Returned(<<>>)
    ELSE IF Shape(doc) = "item not a list" THEN Returned(<<>>)
    ELSE Returned(doc[item])

\* a handler that lets the exception leave the function
Propagate(outcome) == outcome

\* except Exception: return []
OnException(outcome) == IF outcome.raised THEN Returned(<<>>) ELSE outcome

\* the list the program reads from a document
ItemList(doc, item) == OnException(ReadList(doc, item)).value

\* load_patients(code), with the way the call ends
LoadPatientsCall(fs, code) ==
    LET path == patients_file_for_code(code)
    IN  OnException(IF path \notin DOMAIN fs THEN Returned(<<>>)
                    ELSE ReadList(fs[path], "patients"))

load_patients(fs, code) == LoadPatientsCall(fs, code).value

save_patients(fs, code, patients, t) ==
    Put(fs, patients_file_for_code(code),
        [updated_at |-> t, count |-> Len(patients), patients |-> patients])

\* index of the first record whose pid is `pid`, 0 when there is none
FindPid(patients, pid) ==
    IF \E i \in 1..Len(patients) : patients[i].pid = pid
    THEN CHOOSE i \in 1..Len(patients) :
            /\ patients[i].pid = pid
            /\ \A j \in 1..(i - 1) : patients[j].pid # pid
    ELSE 0

patient_exists(fs, code, pid) ==
    LET p == Strip(pid)
    IN  p # <<>> /\ FindPid(load_patients(fs, code), p) # 0

\* an upsert that keeps the oldest records instead of the newest
UpsertMutateKeepFirst(patients, name, pid, t) ==
    LET i == FindPid(patients, pid)
    IN  IF i # 0 THEN [patients EXCEPT ![i] = Put(Put(@, "name", name), "updated_at", t)]
        ELSE Prefix(Append(patients, [pid |-> pid, name |-> name, created_at |-> t]), KeepLast)

\* an upsert that never looks for the identifier and always adds a record
UpsertMutateAppend(patients, name, pid, t) ==
    LastN(Append(patients, [pid |-> pid, name |-> name, created_at |-> t]), KeepLast)

\* an upsert that writes a fresh record over the one it found
UpsertMutateReplace(patients, name, pid, t) ==
    LET i == FindPid(patients, pid)
        updated == IF i # 0
                   THEN [patients EXCEPT ![i] = [pid |-> pid, name |-> name, created_at |-> t]]
                   ELSE Append(patients, [pid |-> pid, name |-> name, created_at |-> t])
    IN  LastN(updated, KeepLast)

\* the list upsert_patient saves (lines 159-171)
UpsertMutate(patients, name, pid, t) ==
    LET i == FindPid(patients, pid)
        updated == IF i # 0
                   THEN [patients EXCEPT ![i] = Put(Put(@, "name", name), "updated_at", t)]
                   ELSE Append(patients, [pid |-> pid, name |-> name, created_at |-> t])
    IN  LastN(updated, KeepLast)

upsert_patient(fs, code, name0, pid0, t) ==
    LET name == Strip(name0)
        pid == Strip(pid0)
    IN  IF name = <<>> \/ pid = <<>> THEN fs
        ELSE save_patients(fs, code, UpsertMutate(load_patients(fs, code), name, pid, t), t)

\* load_reports(code), with the way the call ends
LoadReportsCall(fs, code) ==
    LET path == reports_file_for_code(code)
    IN  OnException(IF path \notin DOMAIN fs THEN Returned(<<>>)
                    ELSE ReadList(fs[path], "reports"))

load_reports(fs, code) == LoadReportsCall(fs, code).value

save_reports(fs, code, reports, t) ==
    Put(fs, reports_file_for_code(code),
        [updated_at |-> t, count |-> Len(reports), reports |-> reports])

\* the list workstation_report saves (routes_workstation.py lines 128-137)
\* an append that keeps the oldest reports
ReportAppendKeepFirst(reports, pid, text, t) ==
    Prefix(Append(reports, [created_at |-> t, PatientID |-> pid, text |-> text]), KeepLast)

ReportAppend(reports, pid, text, t) ==
    LastN(Append(reports, [created_at |-> t, PatientID |-> pid, text |-> text]), KeepLast)

None == "None"
Ordered == "Auftrag freigegeben"
Started == "Untersuchung begonnen"
Completed == "Untersuchung abgeschlossen"
Reported == "Befundet"

\* ExamMutate stamping a later stage on every entry, not only on the first
ExamMutateRestamp(p, acc, desc, status, t) ==
    LET ex0 == IF "last_exam" \in DOMAIN p THEN p.last_exam ELSE EmptyDict
        ex1 == IF acc # <<>> THEN Put(ex0, "acc", acc) ELSE ex0
        ex2 == IF desc # <<>> THEN Put(ex1, "desc", desc) ELSE ex1
        ex3 == IF status # None /\ status # "" THEN Put(ex2, "status", status) ELSE ex2
        ex4 == Put(ex3, "updated_at", t)
    IN  IF status = Ordered
        THEN Pop(Pop(Pop(Put(ex4, "ordered_at", t), "started_at"), "completed_at"), "reported_at")
        ELSE IF status = Started THEN Put(ex4, "started_at", t)
        ELSE IF status = Completed THEN Put(ex4, "completed_at", t)
        ELSE IF status = Reported THEN Put(ex4, "reported_at", t)
        ELSE ex4

\* ExamMutate whose order branch forgets to clear reported_at
ExamMutateKeepReported(p, acc, desc, status, t) ==
    LET ex0 == IF "last_exam" \in DOMAIN p THEN p.last_exam ELSE EmptyDict
        ex1 == IF acc # <<>> THEN Put(ex0, "acc", acc) ELSE ex0
        ex2 == IF desc # <<>> THEN Put(ex1, "desc", desc) ELSE ex1
        ex3 == IF status # None /\ status # "" THEN Put(ex2, "status", status) ELSE ex2
        ex4 == Put(ex3, "updated_at", t)
    IN  IF status = Ordered
        THEN Pop(Pop(Put(ex4, "ordered_at", t), "started_at"), "completed_at")
        ELSE IF status = Started /\ ~Truthy(ex4, "started_at") THEN Put(ex4, "started_at", t)
        ELSE IF status = Completed /\ ~Truthy(ex4, "completed_at") THEN Put(ex4, "completed_at", t)
        ELSE IF status = Reported /\ ~Truthy(ex4, "reported_at") THEN Put(ex4, "reported_at", t)
        ELSE ex4

\* ExamMutate stamping a later stage only when the stage before it was stamped
ExamMutateStampInOrder(p, acc, desc, status, t) ==
    LET ex0 == IF "last_exam" \in DOMAIN p THEN p.last_exam ELSE EmptyDict
        ex1 == IF acc # <<>> THEN Put(ex0, "acc", acc) ELSE ex0
        ex2 == IF desc # <<>> THEN Put(ex1, "desc", desc) ELSE ex1
        ex3 == IF status # None /\ status # "" THEN Put(ex2, "status", status) ELSE ex2
        ex4 == Put(ex3, "updated_at", t)
    IN  IF status = Ordered
        THEN Pop(Pop(Pop(Put(ex4, "ordered_at", t), "started_at"), "completed_at"), "reported_at")
        ELSE IF status = Started /\ ~Truthy(ex4, "started_at") /\ Truthy(ex4, "ordered_at")
        THEN Put(ex4, "started_at", t)
        ELSE IF status = Completed /\ ~Truthy(ex4, "completed_at") /\ Truthy(ex4, "started_at")
        THEN Put(ex4, "completed_at", t)
        ELSE IF status = Reported /\ ~Truthy(ex4, "reported_at") /\ Truthy(ex4, "completed_at")
        THEN Put(ex4, "reported_at", t)
        ELSE ex4

\* the last_exam dict update_patient_last_exam stores (lines 194-213);
\* acc and desc are strings (<<>> when None or empty), status a status or None
ExamMutate(p, acc, desc, status, t) ==
    LET ex0 == IF "last_exam" \in DOMAIN p THEN p.last_exam ELSE EmptyDict
        ex1 == IF acc # <<>> THEN Put(ex0, "acc", acc) ELSE ex0
        ex2 == IF desc # <<>> THEN Put(ex1, "desc", desc) ELSE ex1
        ex3 == IF status # None /\ status # "" THEN Put(ex2, "status", status) ELSE ex2
        ex4 == Put(ex3, "updated_at", t)
    IN  IF status = Ordered
        THEN Pop(Pop(Pop(Put(ex4, "ordered_at", t), "started_at"), "completed_at"), "reported_at")
        ELSE IF status = Started /\ ~Truthy(ex4, "started_at") THEN Put(ex4, "started_at", t)
        ELSE IF status = Completed /\ ~Truthy(ex4, "completed_at") THEN Put(ex4, "completed_at", t)
        ELSE IF status = Reported /\ ~Truthy(ex4, "reported_at") THEN Put(ex4, "reported_at", t)
        ELSE ex4

\* the patients list after the loop of lines 191-218
LastExamMutate(patients, pid, acc, desc, status, t) ==
    LET i == FindPid(patients, pid)
    IN  IF i = 0 THEN patients
        ELSE [patients EXCEPT ![i] =
                Put(Put(@, "last_exam", ExamMutate(@, acc, desc, status, t)), "updated_at", t)]

\* an update that saves the document whether or not it found the record
UpdateAlwaysSaves(fs, code, pid0, acc, desc, status, t) ==
    LET pid == Strip(pid0)
        patients == load_patients(fs, code)
    IN  IF pid = <<>> THEN fs
        ELSE save_patients(fs, code, LastExamMutate(patients, pid, acc, desc, status, t), t)

update_patient_last_exam(fs, code, pid0, acc, desc, status, t) ==
    LET pid == Strip(pid0)
        patients == load_patients(fs, code)
    IN  IF pid = <<>> THEN fs
        ELSE IF FindPid(patients, pid) = 0 THEN fs
        ELSE save_patients(fs, code, LastExamMutate(patients, pid, acc, desc, status, t), t)

-----------------------------------------------------------------------------
(* The prefix visibility rule: orthanc_helpers.py, simlib/dicom_receiver.py *)

\* (d.get(k) or {}) / str(d.get(k) or "")
GetOr(d, k, dflt) == IF k \in DOMAIN d THEN d[k] ELSE dflt

\* the PatientID the loop of _study_visible_for_student reads in `section`
SectionPatientID(study_obj, section) ==
    GetOr(GetOr(study_obj, section, EmptyDict), "PatientID", <<>>)

\* the rule without its guard for the empty tenant
StudyVisibleUnguarded(study_obj, student_code) ==
    LET prefix == student_code \o <<"-">>
    IN  \/ StartsWith(SectionPatientID(study_obj, "PatientMainDicomTags"), prefix)
        \/ StartsWith(SectionPatientID(study_obj, "MainDicomTags"), prefix)

_study_visible_for_student(study_obj, student_code) ==
    IF student_code = <<>> THEN FALSE
    ELSE LET prefix == student_code \o <<"-">>
         IN  IF StartsWith(SectionPatientID(study_obj, "PatientMainDicomTags"), prefix) THEN TRUE
             ELSE IF StartsWith(SectionPatientID(study_obj, "MainDicomTags"), prefix) THEN TRUE
             ELSE FALSE

\* a read of the list that leaves the tenant filter out
ReceivedForAnyCode(images, code0) == images

received_images_for_code(images, code0) ==
    LET code == Strip(code0)
    IN  IF code # <<>>
        THEN SelectSeq(images, LAMBDA r : StartsWith(GetOr(r, "PatientID", <<>>), code \o <<"-">>))
        ELSE images

-----------------------------------------------------------------------------
(* The archive (Orthanc) as the routes reach it: C-STORE, C-FIND and REST *)

\* the archive's identifiers of the study, series and instance of an image
StudyId(pid, acc) == <<"study", pid, acc>>
SeriesId(pid, acc) == <<"series", pid, acc>>
InstanceId(pid, acc, uid) == <<"instance", pid, acc, uid>>

\* cstore.send_c_store / send_c_store_uploaded_files accepted by the archive:
\* the image with SOPInstanceUID uid of patient pid, accession number acc
\* (one series per study)
OrthancStore(o, pid, acc, uid) ==
    LET st == StudyId(pid, acc)
        se == SeriesId(pid, acc)
        ins == InstanceId(pid, acc, uid)
        held == IF se \in DOMAIN o.series THEN o.series[se].Instances ELSE <<>>
    IN  [studies |-> Put(o.studies, st,
                         [ID |-> st,
                          PatientMainDicomTags |-> [PatientID |-> pid],
                          MainDicomTags |-> [AccessionNumber |-> acc],
                          Series |-> <<se>>]),
         series |-> Put(o.series, se,
                        [ID |-> se, ParentStudy |-> st,
                         Instances |-> IF \E i \in 1..Len(held) : held[i] = ins
                                       THEN held ELSE Append(held, ins)]),
         instances |-> Put(o.instances, ins,
                           [ID |-> ins, ParentSeries |-> se, PatientID |-> pid])]

\* the PatientID values of the elements of a list of records
PatientIDs(records) == {GetOr(records[i], "PatientID", <<>>) : i \in 1..Len(records)}

\* workstation_query._query_studies: the studies the archive matches against
\* the C-FIND key PatientID = code-* (every study for the empty key)
_query_studies(o, sess) ==
    LET code == get_student_code(sess)
    IN  {st \in DOMAIN o.studies :
            \/ code = <<>>
            \/ StartsWith(o.studies[st].PatientMainDicomTags.PatientID, code \o <<"-">>)}

\* a response: the route, the tenant code of the request, the HTTP status and
\* the PatientIDs of the archive content and received-image records it carries
Respond(route, code, status, pids) ==
    [route |-> route, code |-> code, status |-> status, pids |-> pids]

NoResponse == Respond("none", <<>>, 0, {})

-----------------------------------------------------------------------------
(* simlib/storage.py: the registry document; simlib/students.py *)

SESSIONS_FILE == DATA_DIR \o <<"s","e","s","s","i","o","n","s",".","j","s","o","n">>

RECURSIVE CleanCodes(_, _)
\* the normalise / drop-empty / de-duplicate loop of load_session_codes and save_session_codes
CleanCodes(codes, cleaned) ==
    IF codes = <<>> THEN cleaned
    ELSE LET cc == normalize_student_code(Head(codes))
         IN  CleanCodes(Tail(codes),
                        IF cc # <<>> /\ \A i \in 1..Len(cleaned) : cleaned[i] # cc
                        THEN Append(cleaned, cc) ELSE cleaned)

\* load_session_codes(), with the way the call ends
LoadSessionCodesCall(fs) ==
    OnException(IF SESSIONS_FILE \notin DOMAIN fs THEN Returned(<<>>)
                ELSE LET codes == ReadList(fs[SESSIONS_FILE], "codes")
                     IN  IF codes.raised THEN Raised
                         ELSE Returned(CleanCodes(codes.value, <<>>)))

load_session_codes(fs) == LoadSessionCodesCall(fs).value

\* a save that adds the codes to those the registry already holds
SaveSessionCodesMerge(fs, codes, t) ==
    LET cleaned == CleanCodes(load_session_codes(fs) \o codes, <<>>)
    IN  Put(fs, SESSIONS_FILE,
            [generated_at |-> t, count |-> Len(cleaned), codes |-> cleaned])

\* save_session_codes(codes) at clock t
save_session_codes(fs, codes, t) ==
    LET cleaned == CleanCodes(codes, <<>>)
    IN  Put(fs, SESSIONS_FILE,
            [generated_at |-> t, count |-> Len(cleaned), codes |-> cleaned])

\* str.upper
LowerSeq == <<"a","b","c","d","e","f","g","h","i","j","k","l","m",
              "n","o","p","q","r","s","t","u","v","w","x","y","z">>
UpperSeq == <<"A","B","C","D","E","F","G","H","I","J","K","L","M",
              "N","O","P","Q","R","S","T","U","V","W","X","Y","Z">>
UpperChar(ch) ==
    IF \E i \in 1..26 : LowerSeq[i] = ch
    THEN UpperSeq[CHOOSE i \in 1..26 : LowerSeq[i] = ch]
    ELSE ch
UpperStr(str) == [i \in 1..Len(str) |-> UpperChar(str[i])]

\* the cap of 200 codes and the default of 20, scaled to the model's size
GenCap == 3
GenDefault == 2

RECURSIVE DigitsValue(_)
DigitsValue(ds) ==
    IF ds = <<>> THEN 0
    ELSE 10 * DigitsValue(Prefix(ds, Len(ds) - 1))
         + (CHOOSE d \in 0..9 : <<"0","1","2","3","4","5","6","7","8","9">>[d + 1] = ds[Len(ds)])

\* int(text): the integer a decimal string denotes; raises for any other string
ParseInt(text) ==
    LET str == Strip(text)
        signed == str # <<>> /\ Head(str) \in {"-", "+"}
        ds == IF signed THEN Tail(str) ELSE str
    IN  IF ds = <<>> \/ \E i \in 1..Len(ds) : ds[i] \notin Digit THEN Raised
        ELSE Returned(IF signed /\ Head(str) = "-" THEN 0 - DigitsValue(ds) ELSE DigitsValue(ds))

Max(a, b) == IF a >= b THEN a ELSE b
Min(a, b) == IF a <= b THEN a ELSE b

\* n = max(1, min(int(n or 20), 200))
GenCount(n) == Max(1, Min(IF n = 0 THEN GenDefault ELSE n, GenCap))

RECURSIVE GenLoop(_, _, _)
\* the while loop of generate_session_codes over the values secrets.token_hex
\* returns, in the order it returns them
GenLoop(n, tokens, out) ==
    IF Len(out) >= n \/ tokens = <<>> THEN out
    ELSE LET suffix == UpperStr(Head(tokens))
             code == normalize_student_code(<<"S","U","S","-">> \o suffix)
         IN  GenLoop(n, Tail(tokens),
                     IF code # <<>> /\ \A i \in 1..Len(out) : out[i] # code
                     THEN Append(out, code) ELSE out)

\* generate_session_codes(n): the list built from the tokens drawn so far
generate_session_codes(n, tokens) == GenLoop(GenCount(n), tokens, <<>>)

\* the loop of generate_session_codes(n) has ended after these tokens
GenReturns(n, tokens) == Len(generate_session_codes(n, tokens)) = GenCount(n)

\* a registry check that treats an empty registry as closed
StudentCodeAllowedClosed(fs, raw) ==
    LET code == normalize_student_code(raw)
        allowed == load_session_codes(fs)
    IN  code # <<>> /\ \E i \in 1..Len(allowed) : allowed[i] = code

student_code_allowed(fs, raw) ==
    LET code == normalize_student_code(raw)
        allowed == load_session_codes(fs)
    IN  IF code = <<>> THEN FALSE
        ELSE IF allowed = <<>> THEN TRUE
        ELSE \E i \in 1..Len(allowed) : allowed[i] = code

\* hooks._require_student_code_gate: the endpoints every browser may request
allowed_endpoints ==
    {"main.welcome", "main.set_student", "main.join", "main.admin_home", "main.admin_login",
     "main.admin_logout", "main.admin_generate_sessions", "static"}

\* a gate that lets every request through
GateOpen(endpoint, path, sess) == "pass"

\* hooks._require_student_code_gate: "pass" for None, "redirect" for the
\* redirect to the welcome page
_require_student_code_gate(endpoint, path, sess) ==
    IF endpoint \in allowed_endpoints THEN "pass"
    ELSE IF StartsWith(path, <<"/","a","d","m","i","n">>) THEN "pass"
    ELSE IF get_student_code(sess) # <<>> THEN "pass"
    ELSE "redirect"

\* a response to a page request: whether the route handler ran, the HTTP
\* status, and the template rendered or the endpoint redirected to
Page(c, endpoint, path, ran, status, target) ==
    [client |-> c, endpoint |-> endpoint, path |-> path, ran |-> ran, status |-> status,
     target |-> target]
NoPage == Page("none", "none", <<>>, FALSE, 0, "none")

\* a call of a store function
Call3(fn, arg, outcome) == [fn |-> fn, arg |-> arg, outcome |-> outcome]
NoCall == Call3("none", <<>>, Returned(<<>>))

-----------------------------------------------------------------------------
(* Inputs of the requests *)

Clients == {"b1", "b2"}

\* raw codes typed into the welcome form or the join URL
RawCodes == { <<"i","t","e","m">>, <<"d","e","f","a","u","l","t">>,
              <<"S","U","S">>, <<" ","S","U","S","-","A"," ">>, <<"!","/">>, <<>> }

\* patient names and identifiers typed into the forms
Names == { <<"A","n","n">>, <<"B","o","b">>, <<" ">> }
RawPids == { <<"1">>, <<>> }
RawAccs == { <<"7">>, <<>> }

\* the clock stops advancing here
\* SOPInstanceUIDs of the images sent to the archive
InstanceUids == {"i1"}

\* PatientIDs carried by uploaded DICOM files
FilePids == { <<"-","1">> }

\* threads that call ensure_store_scp_thread_started
Callers == {"main", "w1"}

\* association threads of the listener, and request threads reading the cache
Handlers == {"h1", "h2"}
Readers == {"r1"}

\* the datasets of the store notifications: a complete one and one without any
\* of the four attributes
Datasets == { [PatientName |-> <<"A","n","n">>, PatientID |-> <<"S","U","S","-","1">>,
               StudyInstanceUID |-> <<"1",".","2">>, Modality |-> <<"C","T">>],
              EmptyDict }

ReaderCodes == { <<"S","U","S">>, <<>> }

\* the listener stops receiving after this many notifications
MaxNotifications == 3

\* request threads of the web server that mutate the store
Workers == {"t1", "t2"}
WorkerCode == <<"S","U","S">>
WorkerPids == { <<"S","U","S","-","1">>, <<"S","U","S","-","2">> }
WorkerOps == {"upsert_patient", "update_patient_last_exam", "workstation_report"}
IdleWorker == [pc |-> "idle", op |-> "none", pid |-> <<>>, local |-> <<>>]

\* the request threads stop after this many store operations
MaxOps == 3

\* the documents a save is asked to write: the kind and the list
SaveKinds == {"patients", "reports", "sessions"}
SaveLists == { <<>>, << <<"S","U","S">>, <<" ","S","U","S">> >> }
SaveCode == <<"S","U","S">>
Absent == << <<"absent">> >>
IdleSaver == [pc |-> "idle", path |-> <<>>, text |-> <<>>, n |-> 0, prior |-> Absent,
              outcome |-> "none", begun |-> 0]

\* the saves stop after this many
MaxSaves == 2

MaxTime == 2

\* registrations stop creating records when the data directory holds this many
MaxRecords == 2

-----------------------------------------------------------------------------
(* The web workflow, one request per step *)

InitProgram ==
    /\ session = [c \in Clients |-> <<>>]
    /\ files = EmptyDict
    /\ now = 1
    /\ registeredUnder = {}
    /\ firstAt = EmptyDict
    /\ prevStatus = EmptyDict
    /\ orthanc = [studies |-> EmptyDict, series |-> EmptyDict, instances |-> EmptyDict]
    /\ response = NoResponse
    /\ RECEIVED_IMAGES = <<>>
    /\ _scp_thread_started = FALSE
    /\ scpThreads = 0
    /\ ensure = [t \in Callers |-> "idle"]
    /\ handler = [h \in Handlers |-> [pc |-> "idle", ds |-> EmptyDict, record |-> EmptyDict]]
    /\ reader = [r \in Readers |-> [pc |-> "idle", code |-> <<>>, i |-> 0, out |-> <<>>]]
    /\ notified = 0
    /\ locks = [l \in {"_SESSIONS_LOCK", "_PATIENTS_LOCK", "_REPORTS_LOCK"} |-> "free"]
    /\ worker = [w \in Workers |-> IdleWorker]
    /\ applied = [begun |-> 0, upserted |-> {}, examined |-> {}, appended |-> 0]
    /\ disk = EmptyDict
    /\ saver = IdleSaver
    /\ inserted = EmptyDict
    /\ is_admin = [c \in Clients |-> FALSE]
    /\ called = NoCall
    /\ page = NoPage

Init ==
    /\ InitProgram
    /\ norm = [raw |-> <<>>]
    /\ gen = [n |-> 1, tokens |-> <<>>]
    /\ named = [code |-> <<>>]

\* hooks._require_student_code_gate for an endpoint outside the allow-list
GatePasses(c) == get_student_code(session[c]) # <<>>

\* a join that stores the code without asking the registry
JoinUnchecked(c, raw) ==
    LET cc == normalize_student_code(raw)
    IN  /\ session' = IF cc = <<>> THEN session ELSE [session EXCEPT ![c] = cc]
        /\ UNCHANGED <<auxVars, files, now, registeredUnder, firstAt, prevStatus, extVars>>

\* routes_session.join
Join(c, raw) ==
    LET cc == normalize_student_code(raw)
    IN  /\ session' = IF cc = <<>> \/ ~student_code_allowed(files, cc)
                      THEN session ELSE [session EXCEPT ![c] = cc]
        /\ UNCHANGED <<auxVars, files, now, registeredUnder, firstAt, prevStatus, extVars>>

\* routes_session.set_student
SetStudent(c, raw) ==
    LET code == normalize_student_code(raw)
    IN  /\ session' = IF code = <<>> THEN [session EXCEPT ![c] = <<>>]
                      ELSE IF ~student_code_allowed(files, code) THEN session
                      ELSE [session EXCEPT ![c] = code]
        /\ UNCHANGED <<auxVars, files, now, registeredUnder, firstAt, prevStatus, extVars>>

\* routes_session.clear_student
ClearStudent(c) ==
    /\ GatePasses(c)
    /\ session' = [session EXCEPT ![c] = <<>>]
    /\ UNCHANGED <<auxVars, files, now, registeredUnder, firstAt, prevStatus, extVars>>

\* the pages requested: the endpoint the URL map resolves the path to ("none"
\* when no rule matches)
PageRequests ==
    { [endpoint |-> "main.index", path |-> <<"/">>],
      [endpoint |-> "main.welcome", path |-> <<"/","w","e","l","c","o","m","e">>],
      [endpoint |-> "main.admin_home", path |-> <<"/","a","d","m","i","n">>],
      [endpoint |-> "none", path |-> <<"/","a","d","m","i","n","/","x">>],
      [endpoint |-> "none", path |-> <<"/","x">>] }

\* a GET of a page: the gate, then routes_session.welcome, routes_home.index
\* or routes_admin.admin_home; a path no rule matches is answered 404
Request(c, rq) ==
    LET gate == _require_student_code_gate(rq.endpoint, rq.path, session[c])
        code == get_student_code(session[c])
    IN  /\ page' =
              IF gate = "redirect"
              THEN Page(c, rq.endpoint, rq.path, FALSE, 302, "main.welcome")
              ELSE CASE rq.endpoint = "main.welcome" ->
                          IF code # <<>> THEN Page(c, rq.endpoint, rq.path, TRUE, 302, "main.index")
                          ELSE Page(c, rq.endpoint, rq.path, TRUE, 200, "welcome.html")
                     [] rq.endpoint = "main.index" ->
                          Page(c, rq.endpoint, rq.path, TRUE, 200, "index.html")
                     [] rq.endpoint = "main.admin_home" ->
                          Page(c, rq.endpoint, rq.path, TRUE, 200, "admin.html")
                     [] OTHER -> Page(c, rq.endpoint, rq.path, FALSE, 404, "none")
        /\ UNCHANGED <<webVars, extVars, inserted, is_admin, called, pureVars>>

\* admin_auth.admin_enabled: the deployment configures an admin password
admin_enabled == TRUE

\* routes_admin.admin_login; `matches` is the outcome of check_login
AdminLogin(c, matches) ==
    /\ is_admin' = IF admin_enabled /\ matches THEN [is_admin EXCEPT ![c] = TRUE] ELSE is_admin
    /\ UNCHANGED <<webVars, extVars, inserted, page, called, pureVars>>

\* routes_admin.admin_logout
AdminLogout(c) ==
    /\ is_admin' = [is_admin EXCEPT ![c] = FALSE]
    /\ UNCHANGED <<webVars, extVars, inserted, page, called, pureVars>>

\* routes_admin.admin_generate_sessions; `tokens` are the values
\* secrets.token_hex returns during the request
AdminGenerateSessions(c, n_raw, tokens) ==
    LET parsed == ParseInt(n_raw)
        n == IF parsed.raised THEN GenDefault ELSE parsed.value
    IN  /\ IF ~admin_enabled \/ ~is_admin[c] THEN UNCHANGED files
           ELSE /\ GenReturns(n, tokens)
                /\ files' = save_session_codes(files, generate_session_codes(n, tokens), now)
        /\ UNCHANGED <<session, now, registeredUnder, firstAt, prevStatus, extVars, auxVars>>

\* number of patient records in the data directory
RECURSIVE SumLen(_, _)
SumLen(fs, paths) ==
    IF paths = {} THEN 0
    ELSE LET q == CHOOSE x \in paths : TRUE
         IN  Len(ItemList(fs[q], "patients")) + SumLen(fs, paths \ {q})

RECURSIVE SumInserts(_, _)
SumInserts(ins, paths) ==
    IF paths = {} THEN 0
    ELSE LET q == CHOOSE x \in paths : TRUE
         IN  Len(ins[q]) + SumInserts(ins, paths \ {q})

TotalRecords(fs) == SumLen(fs, DOMAIN fs \ {SESSIONS_FILE})

\* the pids of the records held by the document at `path`
PidsAt(fs, path) ==
    IF path \notin DOMAIN fs THEN {}
    ELSE {ItemList(fs[path], "patients")[i].pid : i \in 1..Len(ItemList(fs[path], "patients"))}

\* routes_kis.kis_register_patient
KisRegisterPatient(c, name0, pid_raw0) ==
    LET name == Strip(name0)
        pid_raw == Strip(pid_raw0)
        code == get_student_code(session[c])
        pid0 == prefix_for_student(pid_raw, session[c])
        pid == IF pid0 = <<>> THEN <<"U","N","K","N","O","W","N">> ELSE pid0
        path == patients_file_for_code(code)
    IN  /\ GatePasses(c)
        /\ IF name = <<>> \/ pid_raw = <<>>
           THEN UNCHANGED <<files, registeredUnder, firstAt, prevStatus, inserted>>
           ELSE /\ files' = upsert_patient(files, code, name, pid, now)
                /\ TotalRecords(files') <= MaxRecords
                /\ inserted' = IF pid \in PidsAt(files, path) THEN inserted
                               ELSE Put(inserted, path, Append(GetOr(inserted, path, <<>>), pid))
                /\ registeredUnder' =
                     {r \in registeredUnder \cup {<<path, pid, code>>} :
                         r[2] \in PidsAt(files', r[1])}
                /\ firstAt' = [k \in {x \in DOMAIN firstAt : x[2] \in PidsAt(files', x[1])}
                                 |-> firstAt[k]]
                /\ prevStatus' = [k \in {x \in DOMAIN prevStatus : x[2] \in PidsAt(files', x[1])}
                                    |-> prevStatus[k]]
        /\ UNCHANGED <<session, now, extVars, is_admin, page, called, pureVars>>

StageKey(status) ==
    CASE status = Ordered -> "ordered_at"
      [] status = Started -> "started_at"
      [] status = Completed -> "completed_at"
      [] status = Reported -> "reported_at"
      [] OTHER -> "none"

Stages == {Ordered, Started, Completed, Reported}

\* last_exam of the record `pid` of tenant `code` ({} when the record has none)
LastExam(fs, code, pid) ==
    LET patients == load_patients(fs, code)
    IN  GetOr(patients[FindPid(patients, pid)], "last_exam", EmptyDict)

\* history kept beside a call update_patient_last_exam(code, pid, status=status)
\* that found the record: the clock at the first entry into each stage since the
\* last order (an order restarts them) ...
FirstAtAfter(fa, fs, code, pid, status, t) ==
    LET path == patients_file_for_code(code)
        key == <<path, pid, StageKey(status)>>
    IN  IF ~patient_exists(fs, code, pid) \/ status \notin Stages THEN fa
        ELSE IF status = Ordered
        THEN Put([k \in {x \in DOMAIN fa : ~(x[1] = path /\ x[2] = pid)} |-> fa[k]], key, t)
        ELSE IF key \in DOMAIN fa THEN fa
        ELSE Put(fa, key, t)

\* ... and the status the record had before the call
PrevStatusAfter(ps, fs, code, pid, status) ==
    IF ~patient_exists(fs, code, pid) THEN ps
    ELSE Put(ps, <<patients_file_for_code(code), pid>>,
             GetOr(LastExam(fs, code, pid), "status", None))

\* deps._update_patient_last_exam as the routes call it, pid and accession
\* number prefixed with the tenant code first (create_order, scan)
ExamTransition(c, pid_raw, acc_raw, desc, status) ==
    LET pid == prefix_for_student(pid_raw, session[c])
        acc == prefix_for_student(acc_raw, session[c])
        code == get_student_code(session[c])
    IN  /\ GatePasses(c)
        /\ files' = update_patient_last_exam(files, code, pid, acc, desc, status, now)
        /\ firstAt' = FirstAtAfter(firstAt, files, code, pid, status, now)
        /\ prevStatus' = PrevStatusAfter(prevStatus, files, code, pid, status)
        /\ UNCHANGED <<auxVars, session, now, registeredUnder, extVars>>

\* routes_modality.create_order
CreateOrder(c, pid_raw, acc_raw, desc) ==
    LET pid == prefix_for_student(pid_raw, session[c])
        code == get_student_code(session[c])
    IN  IF patient_exists(files, code, pid)
        THEN ExamTransition(c, pid_raw, acc_raw, desc, Ordered)
        ELSE GatePasses(c) /\ UNCHANGED vars

\* routes_modality.scan; `stored` tells whether the archive accepted an image:
\* the dummy image or a retagged upload carries the prefixed pid and accession
\* number, an upload sent without retag keeps the PatientID file_pid of its file
Scan(c, pid_raw, acc_raw, stored, retag, file_pid) ==
    LET pid == prefix_for_student(pid_raw, session[c])
        acc == prefix_for_student(acc_raw, session[c])
        code == get_student_code(session[c])
        begun == update_patient_last_exam(files, code, pid, acc, <<>>, Started, now)
        faBegun == FirstAtAfter(firstAt, files, code, pid, Started, now)
        psBegun == PrevStatusAfter(prevStatus, files, code, pid, Started)
    IN  /\ GatePasses(c)
        /\ IF stored
           THEN /\ files' = update_patient_last_exam(begun, code, pid, acc, <<>>, Completed, now)
                /\ firstAt' = FirstAtAfter(faBegun, begun, code, pid, Completed, now)
                /\ prevStatus' = PrevStatusAfter(psBegun, begun, code, pid, Completed)
                /\ \E uid \in InstanceUids :
                      orthanc' = OrthancStore(orthanc, IF retag THEN pid ELSE file_pid, acc, uid)
           ELSE /\ files' = begun
                /\ firstAt' = faBegun
                /\ prevStatus' = psBegun
                /\ UNCHANGED orthanc
        /\ UNCHANGED <<auxVars, session, now, registeredUnder, response, scpVars, lockVars, saveVars>>

\* whether the REST call for the resource `id` of a kind succeeds
OrthancHas(resources, id) == id \in DOMAIN resources

\* a read route answers browser c; nothing else changes
Answer(c, route, status, pids) ==
    /\ GatePasses(c)
    /\ response' = Respond(route, get_student_code(session[c]), status, pids)
    /\ UNCHANGED <<auxVars, webVars, orthanc, scpVars, lockVars, saveVars>>

\* routes_pacs.pacs_home: the study list
pacs_home(c) ==
    LET code == get_student_code(session[c])
        visible == {st \in DOMAIN orthanc.studies :
                      _study_visible_for_student(orthanc.studies[st], code)}
    IN  Answer(c, "pacs_home", 200,
               {orthanc.studies[st].PatientMainDicomTags.PatientID : st \in visible})

\* routes_pacs.pacs_study
pacs_study(c, study_id) ==
    LET code == get_student_code(session[c])
        study == orthanc.studies[study_id]
    IN  IF ~OrthancHas(orthanc.studies, study_id) THEN Answer(c, "pacs_study", 200, {})
        ELSE IF ~_study_visible_for_student(study, code) THEN Answer(c, "pacs_study", 404, {})
        ELSE Answer(c, "pacs_study", 200, {study.PatientMainDicomTags.PatientID})

\* the PatientIDs of the instances listed by a series
SeriesPids(series) ==
    {orthanc.instances[series.Instances[i]].PatientID : i \in 1..Len(series.Instances)}

\* routes_pacs.pacs_series
pacs_series(c, series_id) ==
    LET code == get_student_code(session[c])
        series == orthanc.series[series_id]
        study == orthanc.studies[series.ParentStudy]
    IN  IF ~OrthancHas(orthanc.series, series_id) THEN Answer(c, "pacs_series", 200, {})
        ELSE IF ~OrthancHas(orthanc.studies, series.ParentStudy)
        THEN Answer(c, "pacs_series", 200, SeriesPids(series))
        ELSE IF ~_study_visible_for_student(study, code) THEN Answer(c, "pacs_series", 404, {})
        ELSE Answer(c, "pacs_series", 200,
                    {study.PatientMainDicomTags.PatientID} \cup SeriesPids(series))

\* routes_pacs.pacs_instance; series_arg is the query parameter `series`
\* (<<>> when absent)
pacs_instance(c, instance_id, series_arg) ==
    LET code == get_student_code(session[c])
        instance == orthanc.instances[instance_id]
        series_id == IF series_arg # <<>> THEN series_arg ELSE instance.ParentSeries
        series == orthanc.series[series_id]
        study == orthanc.studies[series.ParentStudy]
    IN  IF ~OrthancHas(orthanc.instances, instance_id) THEN Answer(c, "pacs_instance", 200, {})
        ELSE IF ~OrthancHas(orthanc.series, series_id)
        THEN Answer(c, "pacs_instance", 200, {instance.PatientID})
        ELSE IF ~OrthancHas(orthanc.studies, series.ParentStudy)
        THEN Answer(c, "pacs_instance", 200, {instance.PatientID} \cup SeriesPids(series))
        ELSE IF ~_study_visible_for_student(study, code) THEN Answer(c, "pacs_instance", 404, {})
        ELSE Answer(c, "pacs_instance", 200,
                    {study.PatientMainDicomTags.PatientID, instance.PatientID}
                        \cup SeriesPids(series))

\* routes_pacs.pacs_instance_preview: the rendered pixels of the instance
pacs_instance_preview(c, instance_id) ==
    LET instance == orthanc.instances[instance_id]
    IN  IF ~OrthancHas(orthanc.instances, instance_id) THEN Answer(c, "pacs_instance_preview", 415, {})
        ELSE Answer(c, "pacs_instance_preview", 200, {instance.PatientID})

\* routes_workstation.viewer: the C-FIND result and the received-image cache
viewer(c) ==
    LET code == get_student_code(session[c])
        studies == _query_studies(orthanc, session[c])
        received == received_images_for_code(RECEIVED_IMAGES, code)
    IN  Answer(c, "viewer", 200,
               {orthanc.studies[st].PatientMainDicomTags.PatientID : st \in studies}
                   \cup PatientIDs(received))

\* a second passes
Tick ==
    /\ now < MaxTime
    /\ now' = now + 1
    /\ UNCHANGED <<auxVars, session, files, registeredUnder, firstAt, prevStatus, extVars>>

Next ==
    \/ \E c \in Clients, raw \in RawCodes : Join(c, raw)
    \/ \E c \in Clients, raw \in RawCodes : SetStudent(c, raw)
    \/ \E c \in Clients : ClearStudent(c)
    \/ \E c \in Clients, n \in Names, p \in RawPids : KisRegisterPatient(c, n, p)

Spec == Init /\ [][Next]_vars

-----------------------------------------------------------------------------
(* Sessions and the registry the admin generates *)

RegAdmins == {"b1"}

\* raw codes typed while a registry may exist
RegRawCodes == { <<"S","U","S">>, <<"S","U","S","-","A","B","C","D","E","F">>,
                 <<" ","S","U","S","-","0","0","0","0","0","1">>,
                 <<"s","u","s","-","a","b","c","d","e","f">>, <<"!","/">>, <<>> }

\* the 'count' field of the admin form
RawCounts == { <<"0">>, <<"1">>, <<" ","3">>, <<"9">>, <<"-","1">>, <<"x">>, <<>> }

\* values secrets.token_hex(3) returns
TokenPool == { <<"a","b","c","d","e","f">>, <<"0","0","0","0","0","1">>,
               <<"5","7","9","b","d","e">>, <<"0","3","c","4","f","f">>,
               <<"1","0","0","0","0","0">> }

\* two runs of draws, one of them drawing a value twice
TokenStreams ==
    { << <<"a","b","c","d","e","f">>, <<"a","b","c","d","e","f">>, <<"0","0","0","0","0","1">>,
         <<"5","7","9","b","d","e">>, <<"0","3","c","4","f","f">>, <<"1","0","0","0","0","0">> >>,
      << <<"0","0","0","0","0","1">>, <<"1","0","0","0","0","0">>, <<"0","3","c","4","f","f">>,
         <<"5","7","9","b","d","e">>, <<"a","b","c","d","e","f">> >> }

NextRegistry ==
    \/ \E c \in Clients, raw \in RegRawCodes : Join(c, raw)
    \/ \E c \in Clients, raw \in RegRawCodes : SetStudent(c, raw)
    \/ \E c \in Clients : ClearStudent(c)
    \/ \E c \in RegAdmins, matches \in BOOLEAN : AdminLogin(c, matches)
    \/ \E c \in RegAdmins : AdminLogout(c)
    \/ \E c \in RegAdmins, n_raw \in RawCounts, tokens \in TokenStreams :
          AdminGenerateSessions(c, n_raw, tokens)
    \/ \E c \in Clients, rq \in PageRequests : Request(c, rq)

SpecRegistry == Init /\ [][NextRegistry]_vars

-----------------------------------------------------------------------------
(* The store functions called one after another on documents that may be
   damaged from outside *)

StoreCodes == { <<"S","U","S">> }

\* lists of raw codes handed to save_session_codes
RawCodeLists ==
    { <<>>,
      << <<"S","U","S">>, <<" ","S","U","S"," ">>, <<"!","/">>, <<"A">> >>,
      << <<"A">>, <<"B","!">>, <<"A">>, <<"B">> >>,
      << <<>>, <<"!","/">> >> }

\* lists handed to save_patients and save_reports
StorePatientLists ==
    { <<>>, << [pid |-> <<"S","U","S","-","1">>, name |-> <<"A","n","n">>, created_at |-> 1] >> }
StoreReportLists ==
    { <<>>, << [created_at |-> 1, PatientID |-> <<"S","U","S","-","1">>, text |-> <<"o","k">>] >> }

\* the documents of the store functions and their item keys
StoreDocuments ==
    { <<SESSIONS_FILE, "codes">> }
    \cup { <<patients_file_for_code(code), "patients">> : code \in StoreCodes }
    \cup { <<reports_file_for_code(code), "reports">> : code \in StoreCodes }

\* what a damaged file at a document's path may hold
DamagedDocs(item) ==
    { [malformed |-> "unreadable"], [malformed |-> "not json"], [malformed |-> "not an object"],
      Put([malformed |-> "item not a list"], item, "text"),
      [count |-> 0] }

\* values of the environment variable AUTO_GENERATE_SESSIONS
AutoValues == { <<>>, <<"x">>, <<"1">>, <<"0">>, <<"-","1">> }

\* something outside the program overwrites or removes a document
Damage(path, item, doc) ==
    /\ files' = Put(files, path, doc)
    /\ called' = NoCall
    /\ UNCHANGED <<session, now, registeredUnder, firstAt, prevStatus, extVars, inserted, is_admin, page, pureVars>>

LoadPatients(code) ==
    /\ called' = Call3("load_patients", code, LoadPatientsCall(files, code))
    /\ UNCHANGED <<webVars, extVars, inserted, is_admin, page, pureVars>>

LoadReports(code) ==
    /\ called' = Call3("load_reports", code, LoadReportsCall(files, code))
    /\ UNCHANGED <<webVars, extVars, inserted, is_admin, page, pureVars>>

LoadSessionCodes ==
    /\ called' = Call3("load_session_codes", <<>>, LoadSessionCodesCall(files))
    /\ UNCHANGED <<webVars, extVars, inserted, is_admin, page, pureVars>>

StudentCodeAllowed(raw) ==
    /\ called' = Call3("student_code_allowed", raw, Returned(student_code_allowed(files, raw)))
    /\ UNCHANGED <<webVars, extVars, inserted, is_admin, page, pureVars>>

SavePatients(code, patients) ==
    /\ files' = save_patients(files, code, patients, now)
    /\ called' = Call3("save_patients", code, Returned(<<>>))
    /\ UNCHANGED <<session, now, registeredUnder, firstAt, prevStatus, extVars, inserted, is_admin, page, pureVars>>

SaveReports(code, reports) ==
    /\ files' = save_reports(files, code, reports, now)
    /\ called' = Call3("save_reports", code, Returned(<<>>))
    /\ UNCHANGED <<session, now, registeredUnder, firstAt, prevStatus, extVars, inserted, is_admin, page, pureVars>>

SaveSessionCodes(codes) ==
    /\ files' = save_session_codes(files, codes, now)
    /\ called' = Call3("save_session_codes", codes, Returned(<<>>))
    /\ UNCHANGED <<session, now, registeredUnder, firstAt, prevStatus, extVars, inserted, is_admin, page, pureVars>>

\* the count maybe_auto_generate_sessions reads from the environment (lines 90-93)
AutoCount(raw) == IF ParseInt(raw).raised THEN GenDefault ELSE ParseInt(raw).value

\* storage.maybe_auto_generate_sessions with AUTO_GENERATE_SESSIONS = raw0
MaybeAutoGenerateSessions(raw0, tokens) ==
    LET raw == Strip(raw0)
        n == AutoCount(raw)
    IN  /\ IF raw = <<>> \/ n <= 0 \/ load_session_codes(files) # <<>>
           THEN UNCHANGED files
           ELSE /\ GenReturns(n, tokens)
                /\ files' = save_session_codes(files, generate_session_codes(n, tokens), now)
        /\ called' = Call3("maybe_auto_generate_sessions", raw0, Returned(<<>>))
        /\ UNCHANGED <<session, now, registeredUnder, firstAt, prevStatus, extVars, inserted, is_admin, page, pureVars>>

NextStore ==
    \/ \E d \in StoreDocuments : \E doc \in DamagedDocs(d[2]) : Damage(d[1], d[2], doc)
    \/ \E code \in StoreCodes : LoadPatients(code)
    \/ \E code \in StoreCodes : LoadReports(code)
    \/ LoadSessionCodes
    \/ \E raw \in RegRawCodes : StudentCodeAllowed(raw)
    \/ \E code \in StoreCodes, patients \in StorePatientLists : SavePatients(code, patients)
    \/ \E code \in StoreCodes, reports \in StoreReportLists : SaveReports(code, reports)
    \/ \E codes \in RawCodeLists : SaveSessionCodes(codes)
    \/ \E raw \in AutoValues, tokens \in TokenStreams : MaybeAutoGenerateSessions(raw, tokens)

SpecStore == Init /\ [][NextStore]_vars

-----------------------------------------------------------------------------
(* upsert_patient when the read of the tenant's document may fail *)

ReadFailCodes == { <<"S","U","S">> }
ReadFailNames == { <<"A","n","n">>, <<"B","o","b">> }
ReadFailPids == { <<"S","U","S","-","1">>, <<"S","U","S","-","2">>, <<"S","U","S","-","3">> }

\* the try block of load_patients (lines 115-120); `raises` is whether open()
\* or json.load() raises on this call although the stored document is intact
TryLoadPatients(fs, code, raises) ==
    LET path == patients_file_for_code(code)
    IN  IF path \notin DOMAIN fs THEN Returned(<<>>)
        ELSE IF raises THEN Raised
        ELSE ReadList(fs[path], "patients")

\* upsert_patient (lines 153-172) with the outcome of its load step
UpsertAfterLoad(fs, code, name0, pid0, t, raises) ==
    LET name == Strip(name0)
        pid == Strip(pid0)
        patients == OnException(TryLoadPatients(fs, code, raises)).value
    IN  IF name = <<>> \/ pid = <<>> THEN fs
        ELSE save_patients(fs, code, UpsertMutate(patients, name, pid, t), t)

UpsertPatient(code, name, pid, raises) ==
    /\ files' = UpsertAfterLoad(files, code, name, pid, now, raises)
    /\ called' = Call3("upsert_patient", code, Returned(<<>>))
    /\ UNCHANGED <<session, now, registeredUnder, firstAt, prevStatus, extVars, inserted, is_admin, page, pureVars>>

NextReadFail ==
    \/ \E code \in ReadFailCodes, n \in ReadFailNames, p \in ReadFailPids, raises \in BOOLEAN :
          UpsertPatient(code, n, p, raises)
    \/ Tick

SpecReadFail == Init /\ [][NextReadFail]_vars

-----------------------------------------------------------------------------

(* upsert_patient and update_patient_last_exam called on one tenant's document *)

FrameCodes == { <<"S","U","S">> }
FrameNames == { <<"A","n","n">>, <<"B","o","b">> }
FramePids == { <<"S","U","S","-","1">>, <<"S","U","S","-","2">> }
\* identifiers update_patient_last_exam is called with: registered ones, one
\* never registered, the empty string and blanks
FrameExamPids == FramePids \cup { <<"S","U","S","-","9">>, <<>>, <<" ">> }
FrameAccs == { <<"S","U","S","-","7">> }
FrameStatuses == {Reported}

UpdatePatientLastExam(code, pid, acc, status) ==
    /\ files' = update_patient_last_exam(files, code, pid, acc, <<>>, status, now)
    /\ called' = Call3("update_patient_last_exam", pid, Returned(<<>>))
    /\ UNCHANGED <<session, now, registeredUnder, firstAt, prevStatus, extVars, inserted, is_admin, page, pureVars>>

NextFrame ==
    \/ \E code \in FrameCodes, n \in FrameNames, p \in FramePids : UpsertPatient(code, n, p, FALSE)
    \/ \E code \in FrameCodes, p \in FrameExamPids, a \in FrameAccs, st \in FrameStatuses :
          UpdatePatientLastExam(code, p, a, st)
    \/ Tick

SpecFrame == Init /\ [][NextFrame]_vars

-----------------------------------------------------------------------------

(* normalize_student_code applied to a raw code, and again to its result *)

MaxRawLen == 3
NormAlphabet == {"a", "Z", "7", " ", "-", "_", "!"}

\* ch repeated n times
Rep(ch, n) == [i \in 1..n |-> ch]

\* raw codes: every short string over the alphabet, and strings around the
\* 24-character limit
NormInputs ==
    UNION {[1..n -> NormAlphabet] : n \in 0..MaxRawLen}
    \cup { Rep("A", CodeMaxLen), Rep("A", CodeMaxLen + 1),
           <<" ">> \o Rep("a", CodeMaxLen - 1) \o <<"!", "b", "c", " ">>,
           Rep(" ", CodeMaxLen) \o <<"x">>,
           Rep("!", CodeMaxLen + 1) }

InitNormalize ==
    /\ InitProgram
    /\ norm \in {[raw |-> raw] : raw \in NormInputs}
    /\ gen = [n |-> 1, tokens |-> <<>>]
    /\ named = [code |-> <<>>]

\* normalize_student_code(raw)
NormalizeOnce ==
    /\ "once" \notin DOMAIN norm
    /\ norm' = Put(norm, "once", normalize_student_code(norm.raw))
    /\ UNCHANGED <<webVars, extVars, inserted, is_admin, page, called, gen, named>>

\* normalize_student_code(normalize_student_code(raw))
NormalizeTwice ==
    /\ "once" \in DOMAIN norm
    /\ "twice" \notin DOMAIN norm
    /\ norm' = Put(norm, "twice", normalize_student_code(norm.once))
    /\ UNCHANGED <<webVars, extVars, inserted, is_admin, page, called, gen, named>>

NextNormalize == NormalizeOnce \/ NormalizeTwice

SpecNormalize == InitNormalize /\ [][NextNormalize]_vars

-----------------------------------------------------------------------------
(* patients_file_for_code(code) and reports_file_for_code(code) for any str *)

MaxCodeChars == 3
FileAlphabet == {"a", "7", " ", "/", "\\", ".", "!"}

\* tenant codes as any caller may pass them: every short string over the
\* alphabet, the reserved word, and strings around the 64-character limit
FileInputs ==
    UNION {[1..n -> FileAlphabet] : n \in 0..MaxCodeChars}
    \cup { ItemName, DefaultName,
           Rep("A", FileMaxLen), Rep("A", FileMaxLen + 1),
           Rep("/", FileMaxLen + 2),
           <<".", ".", "/">> \o Rep("x", FileMaxLen) }

InitFiles ==
    /\ InitProgram
    /\ norm = [raw |-> <<>>]
    /\ gen = [n |-> 1, tokens |-> <<>>]
    /\ named \in {[code |-> code] : code \in FileInputs}

PatientsFileForCode ==
    /\ "patients" \notin DOMAIN named
    /\ named' = Put(named, "patients", patients_file_for_code(named.code))
    /\ UNCHANGED <<webVars, extVars, inserted, is_admin, page, called, norm, gen>>

ReportsFileForCode ==
    /\ "reports" \notin DOMAIN named
    /\ named' = Put(named, "reports", reports_file_for_code(named.code))
    /\ UNCHANGED <<webVars, extVars, inserted, is_admin, page, called, norm, gen>>

NextFiles == PatientsFileForCode \/ ReportsFileForCode

SpecFiles == InitFiles /\ [][NextFiles]_vars

-----------------------------------------------------------------------------
(* generate_session_codes(n), one draw of secrets.token_hex at a time *)

\* the counts asked for: below, at and above both ends of the clamp
GenCounts == {0 - 1, 0, 1, 2, GenCap, GenCap + 1, GenCap + 6}

MaxTokens == 5

InitGenerate ==
    /\ InitProgram
    /\ norm = [raw |-> <<>>]
    /\ gen \in {[n |-> n, tokens |-> <<>>] : n \in GenCounts}
    /\ named = [code |-> <<>>]

\* one iteration of the while loop, drawing `token`
DrawToken(token) ==
    /\ ~GenReturns(gen.n, gen.tokens)
    /\ Len(gen.tokens) < MaxTokens
    /\ gen' = [gen EXCEPT !.tokens = Append(@, token)]
    /\ UNCHANGED <<webVars, extVars, inserted, is_admin, page, called, norm, named>>

NextGenerate == \E token \in TokenPool : DrawToken(token)

SpecGenerate == InitGenerate /\ [][NextGenerate]_vars

-----------------------------------------------------------------------------
(* One tenant registering more patients than its document keeps *)

EvictClients == {"b1"}
EvictCodes == { <<"S","U","S">> }
EvictNames == { <<"A","n","n">>, <<"B","o","b">> }
EvictPids == { <<"1">>, <<"2">>, <<"3">>, <<"4">> }
MaxInserts == 4

\* the records upsert_patient has added to the documents, over all tenants
TotalInserts(ins) == SumInserts(ins, DOMAIN ins)

NextEvict ==
    \/ \E c \in EvictClients, raw \in EvictCodes : Join(c, raw)
    \/ \E c \in EvictClients, n \in EvictNames, p \in EvictPids :
          /\ KisRegisterPatient(c, n, p)
          /\ TotalInserts(inserted') <= MaxInserts

SpecEvict == Init /\ [][NextEvict]_vars

-----------------------------------------------------------------------------
(* The exam lifecycle of one tenant's patients, with the clock running *)

ExamClients == {"b1"}
ExamCodes == { <<"S","U","S">> }
ExamAccs == { <<"7">> }
ExamNames == { <<"A","n","n">> }
ExamPids == { <<"1">> }
StatusInputs == Stages \cup {None}

NextExam ==
    \/ \E c \in ExamClients, raw \in ExamCodes : Join(c, raw)
    \/ \E c \in ExamClients, n \in ExamNames, p \in ExamPids : KisRegisterPatient(c, n, p)
    \/ \E c \in ExamClients, p \in ExamPids, a \in RawAccs, st \in StatusInputs :
          ExamTransition(c, p, a, <<>>, st)
    \/ \E c \in ExamClients, p \in ExamPids, a \in RawAccs : CreateOrder(c, p, a, <<>>)
    \/ \E c \in ExamClients, p \in ExamPids, a \in ExamAccs, ok \in BOOLEAN, fp \in FilePids :
          Scan(c, p, a, ok, TRUE, fp)
    \/ Tick

SpecExam == Init /\ [][NextExam]_vars

-----------------------------------------------------------------------------
(* simlib/storage.py: the save functions at the level of the file system, one *)
(* system call per step                                                       *)

\* json.dump(payload, f): the chunks written to f, in order
Dump(payload, keys) ==
    << <<"{">> >> \o [i \in 1..Len(keys) |-> <<keys[i], payload[keys[i]]>>] \o << <<"}">> >>

\* whether json.load accepts the text: it holds a whole document
Complete(text) ==
    Len(text) >= 2 /\ text[1] = <<"{">> /\ text[Len(text)] = <<"}">>

\* json.load(f) of a whole document
Loads(text) ==
    [k \in {text[i][1] : i \in 2..(Len(text) - 1)} |->
        (CHOOSE c \in {text[i] : i \in 2..(Len(text) - 1)} : c[1] = k)[2]]

\* load_patients / load_reports / load_session_codes at this level: the list
\* under `key`, [] when the file is missing or json.load raises
LoadList(d, path, key) ==
    IF path \notin DOMAIN d THEN <<>>
    ELSE IF ~Complete(d[path]) THEN <<>>
    ELSE GetOr(Loads(d[path]), key, <<>>)

\* the target path, the payload keys and the list key of a kind of document
SavePath(kind) ==
    CASE kind = "patients" -> patients_file_for_code(SaveCode)
      [] kind = "reports" -> reports_file_for_code(SaveCode)
      [] OTHER -> SESSIONS_FILE

SaveKeys(kind) ==
    CASE kind = "patients" -> <<"updated_at", "count", "patients">>
      [] kind = "reports" -> <<"updated_at", "count", "reports">>
      [] OTHER -> <<"generated_at", "count", "codes">>

\* the payload save_patients, save_reports or save_session_codes builds
SavePayload(kind, list, t) ==
    CASE kind = "patients" -> [updated_at |-> t, count |-> Len(list), patients |-> list]
      [] kind = "reports" -> [updated_at |-> t, count |-> Len(list), reports |-> list]
      [] OTHER -> [generated_at |-> t, count |-> Len(CleanCodes(list, <<>>)),
                   codes |-> CleanCodes(list, <<>>)]

\* a save that writes the document in place
TmpPathInPlace(path) == path

\* tmp = path + '.tmp'
TmpPath(path) == path \o <<".","t","m","p">>

\* what the target path holds
Target(d, path) == IF path \in DOMAIN d THEN d[path] ELSE Absent

\* save_*: the payload is built and the `with` block of the lock entered
SaveBegin(kind, list) ==
    /\ saver.pc = "idle"
    /\ saver.begun < MaxSaves
    /\ saver' = [pc |-> "open", path |-> SavePath(kind),
                 text |-> Dump(SavePayload(kind, list, now), SaveKeys(kind)), n |-> 0,
                 prior |-> Target(disk, SavePath(kind)), outcome |-> "none",
                 begun |-> saver.begun + 1]
    /\ UNCHANGED <<auxVars, webVars, pacsVars, scpVars, lockVars, disk>>

\* open(tmp, 'w') creates or truncates the temporary file
OpenTmp ==
    /\ saver.pc = "open"
    /\ disk' = Put(disk, TmpPath(saver.path), <<>>)
    /\ saver' = [saver EXCEPT !.pc = "write"]
    /\ UNCHANGED <<auxVars, webVars, pacsVars, scpVars, lockVars>>

\* json.dump writes the next chunk; the file is closed after the last one
WriteChunk ==
    /\ saver.pc = "write"
    /\ IF saver.n < Len(saver.text)
       THEN /\ disk' = Put(disk, TmpPath(saver.path),
                           Append(disk[TmpPath(saver.path)], saver.text[saver.n + 1]))
            /\ saver' = [saver EXCEPT !.n = @ + 1]
       ELSE /\ saver' = [saver EXCEPT !.pc = "replace"]
            /\ UNCHANGED disk
    /\ UNCHANGED <<auxVars, webVars, pacsVars, scpVars, lockVars>>

\* os.replace(tmp, path)
Replace ==
    /\ saver.pc = "replace"
    /\ disk' = Pop(Put(disk, saver.path, disk[TmpPath(saver.path)]), TmpPath(saver.path))
    /\ saver' = [saver EXCEPT !.pc = "idle", !.outcome = "saved"]
    /\ UNCHANGED <<auxVars, webVars, pacsVars, scpVars, lockVars>>

\* open, write or os.replace raises: `except Exception: pass`
SaveFails ==
    /\ saver.pc \in {"open", "write", "replace"}
    /\ saver' = [saver EXCEPT !.pc = "idle", !.outcome = "failed"]
    /\ UNCHANGED <<auxVars, webVars, pacsVars, scpVars, lockVars, disk>>

\* the process stops inside the save and is started again
ProcessStops ==
    /\ saver.pc \in {"open", "write", "replace"}
    /\ saver' = [saver EXCEPT !.pc = "idle", !.outcome = "stopped"]
    /\ UNCHANGED <<auxVars, webVars, pacsVars, scpVars, lockVars, disk>>

NextSave ==
    \/ \E kind \in SaveKinds, list \in SaveLists : SaveBegin(kind, list)
    \/ OpenTmp
    \/ WriteChunk
    \/ Replace
    \/ SaveFails
    \/ ProcessStops

SpecSave == Init /\ [][NextSave]_vars

-----------------------------------------------------------------------------
(* The mutating store operations on concurrent request threads: each thread *)
(* takes one step per lock acquisition and per `with` block                 *)

\* the lock the load and save functions of an operation take
SessionOps == {"load_session_codes", "save_session_codes"}

LockOf(op) ==
    IF op = "workstation_report" THEN "_REPORTS_LOCK"
    ELSE IF op \in SessionOps THEN "_SESSIONS_LOCK"
    ELSE "_PATIENTS_LOCK"

\* a request thread enters upsert_patient, update_patient_last_exam or the
\* report append of workstation_report
Call(w, op, pid) ==
    /\ worker[w].pc = "idle"
    /\ applied.begun < MaxOps
    /\ worker' = [worker EXCEPT ![w] = [pc |-> "load", op |-> op, pid |-> pid, local |-> <<>>]]
    /\ applied' = [applied EXCEPT !.begun = @ + 1]
    /\ UNCHANGED <<auxVars, webVars, pacsVars, scpVars, saveVars, locks>>

\* `with _PATIENTS_LOCK:` / `with _REPORTS_LOCK:` is entered by load_* or save_*
Acquire(w) ==
    /\ worker[w].pc \in {"load", "save"}
    /\ locks[LockOf(worker[w].op)] = "free"
    /\ locks' = [locks EXCEPT ![LockOf(worker[w].op)] = w]
    /\ worker' = [worker EXCEPT ![w].pc = IF @ = "load" THEN "loading" ELSE "saving"]
    /\ UNCHANGED <<auxVars, webVars, pacsVars, scpVars, saveVars, applied>>

\* the list the operation will save, computed from the list it loaded
Mutated(me, loaded, t) ==
    CASE me.op = "upsert_patient" -> UpsertMutate(loaded, <<"A","n","n">>, me.pid, t)
      [] me.op = "update_patient_last_exam" ->
            LastExamMutate(loaded, me.pid, <<>>, <<>>, Ordered, t)
      [] me.op = "report_exam" ->
            LastExamMutate(loaded, me.pid, <<>>, <<>>, Reported, t)
      [] OTHER -> ReportAppend(loaded, me.pid, <<"o","k">>, t)

\* load_patients / load_reports reads the document and leaves its `with`
\* block; the caller then mutates its own copy of the list, the lock released
LoadRelease(w) ==
    LET me == worker[w]
        loaded == IF me.op = "workstation_report" THEN load_reports(files, WorkerCode)
                  ELSE load_patients(files, WorkerCode)
        changed == me.op \in {"upsert_patient", "workstation_report"}
                      \/ FindPid(loaded, me.pid) # 0
    IN  /\ me.pc = "loading"
        /\ me.op \notin SessionOps
        /\ locks' = [locks EXCEPT ![LockOf(me.op)] = "free"]
        /\ worker' = [worker EXCEPT ![w] =
               IF changed THEN [me EXCEPT !.pc = "save", !.local = Mutated(me, loaded, now)]
               ELSE IdleWorker]
        /\ UNCHANGED <<auxVars, webVars, pacsVars, scpVars, saveVars, applied>>

\* save_patients / save_reports replaces the document and leaves its `with`
\* block; workstation_report goes on to update_patient_last_exam(Befundet)
SaveRelease(w) ==
    LET me == worker[w]
    IN  /\ me.pc = "saving"
        /\ me.op \notin SessionOps
        /\ locks' = [locks EXCEPT ![LockOf(me.op)] = "free"]
        /\ files' = IF me.op = "workstation_report"
                    THEN save_reports(files, WorkerCode, me.local, now)
                    ELSE save_patients(files, WorkerCode, me.local, now)
        /\ worker' = [worker EXCEPT ![w] =
               IF me.op = "workstation_report"
               THEN [pc |-> "load", op |-> "report_exam", pid |-> me.pid, local |-> <<>>]
               ELSE IdleWorker]
        /\ applied' = CASE me.op = "upsert_patient" ->
                              [applied EXCEPT !.upserted = @ \cup {me.pid}]
                         [] me.op = "workstation_report" ->
                              [applied EXCEPT !.appended = @ + 1]
                         [] OTHER -> [applied EXCEPT !.examined = @ \cup {me.pid}]
        /\ UNCHANGED <<auxVars, session, now, registeredUnder, firstAt, prevStatus, pacsVars, scpVars, saveVars>>

NextLock ==
    \/ \E w \in Workers, op \in WorkerOps, pid \in WorkerPids : Call(w, op, pid)
    \/ \E w \in Workers : Acquire(w)
    \/ \E w \in Workers : LoadRelease(w)
    \/ \E w \in Workers : SaveRelease(w)

SpecLock == Init /\ [][NextLock]_vars

-----------------------------------------------------------------------------
(* The same request threads with the registry functions and with file I/O   *)
(* that can fail inside a `with` block, under fair scheduling               *)

FairPids == { <<"S","U","S","-","1">> }
FairCodeLists == { << <<"S","U","S">> >> }

\* a thread enters load_session_codes or save_session_codes
CallSessions(w, op, codes) ==
    /\ worker[w].pc = "idle"
    /\ applied.begun < MaxOps
    /\ worker' = [worker EXCEPT ![w] =
           IF op = "save_session_codes"
           THEN [pc |-> "save", op |-> op, pid |-> <<>>, local |-> codes]
           ELSE [pc |-> "load", op |-> op, pid |-> <<>>, local |-> <<>>]]
    /\ applied' = [applied EXCEPT !.begun = @ + 1]
    /\ UNCHANGED <<auxVars, webVars, pacsVars, scpVars, saveVars, locks>>

\* load_session_codes returns, by its return or by its `except`, and leaves
\* its `with` block
SessionsLoadRelease(w) ==
    /\ worker[w].pc = "loading"
    /\ worker[w].op = "load_session_codes"
    /\ locks' = [locks EXCEPT !["_SESSIONS_LOCK"] = "free"]
    /\ worker' = [worker EXCEPT ![w] = IdleWorker]
    /\ UNCHANGED <<auxVars, webVars, pacsVars, scpVars, saveVars, applied>>

\* save_session_codes replaces the registry, or fails to, and leaves its
\* `with` block
SessionsSaveRelease(w, fails) ==
    /\ worker[w].pc = "saving"
    /\ worker[w].op = "save_session_codes"
    /\ locks' = [locks EXCEPT !["_SESSIONS_LOCK"] = "free"]
    /\ files' = IF fails THEN files ELSE save_session_codes(files, worker[w].local, now)
    /\ worker' = [worker EXCEPT ![w] = IdleWorker]
    /\ UNCHANGED <<auxVars, session, now, registeredUnder, firstAt, prevStatus, pacsVars, scpVars, saveVars, applied>>

\* an exception that leaves the `with` block without releasing its lock
RaisesHolding(w) ==
    LET me == worker[w]
    IN  /\ me.pc \in {"loading", "saving"}
        /\ me.op \notin SessionOps
        /\ worker' = [worker EXCEPT ![w] = IdleWorker]
        /\ UNCHANGED <<auxVars, webVars, pacsVars, scpVars, saveVars, applied, locks>>

\* open, json.load, json.dump or os.replace raises inside the `with` block of
\* load_patients, load_reports, save_patients or save_reports: `except` ends
\* the function (a load returns []), the `with` statement releases the lock
Raises(w) ==
    LET me == worker[w]
    IN  /\ me.pc \in {"loading", "saving"}
        /\ me.op \notin SessionOps
        /\ locks' = [locks EXCEPT ![LockOf(me.op)] = "free"]
        /\ worker' = [worker EXCEPT ![w] =
               IF me.pc = "loading"
               THEN IF me.op \in {"upsert_patient", "workstation_report"}
                    THEN [me EXCEPT !.pc = "save", !.local = Mutated(me, <<>>, now)]
                    ELSE IdleWorker
               ELSE IF me.op = "workstation_report"
                    THEN [pc |-> "load", op |-> "report_exam", pid |-> me.pid, local |-> <<>>]
                    ELSE IdleWorker]
        /\ UNCHANGED <<auxVars, webVars, pacsVars, scpVars, saveVars, applied>>

\* the steps of thread w between entering and leaving a `with` block
Leave(w) ==
    \/ Raises(w)
    \/ SessionsLoadRelease(w)
    \/ \E fails \in BOOLEAN : SessionsSaveRelease(w, fails)
    \/ LoadRelease(w)
    \/ SaveRelease(w)

NextFair ==
    \/ \E w \in Workers, op \in WorkerOps, pid \in FairPids : Call(w, op, pid)
    \/ \E w \in Workers, op \in SessionOps, codes \in FairCodeLists : CallSessions(w, op, codes)
    \/ \E w \in Workers : Acquire(w)
    \/ \E w \in Workers : Leave(w)

\* a thread inside a `with` block keeps running, and a thread that waits for
\* a lock that is free again and again gets it
SpecFair ==
    /\ Init
    /\ [][NextFair]_vars
    /\ \A w \in Workers : WF_vars(Leave(w)) /\ SF_vars(Acquire(w))

-----------------------------------------------------------------------------
(* simlib/dicom_receiver.py: the listener, one statement of a thread per step *)

\* ensure_store_scp_thread_started: `if _scp_thread_started: return`
EnsureCheck(t) ==
    /\ ensure[t] = "idle"
    /\ ensure' = [ensure EXCEPT ![t] = IF _scp_thread_started THEN "idle" ELSE "start"]
    /\ UNCHANGED <<auxVars, webVars, pacsVars, lockVars, saveVars, RECEIVED_IMAGES, _scp_thread_started, scpThreads,
                   handler, reader, notified>>

\* ensure_store_scp_thread_started: `scp_thread.start()`
EnsureStart(t) ==
    /\ ensure[t] = "start"
    /\ scpThreads' = scpThreads + 1
    /\ ensure' = [ensure EXCEPT ![t] = "set"]
    /\ UNCHANGED <<auxVars, webVars, pacsVars, lockVars, saveVars, RECEIVED_IMAGES, _scp_thread_started,
                   handler, reader, notified>>

\* ensure_store_scp_thread_started: `_scp_thread_started = True`
EnsureSet(t) ==
    /\ ensure[t] = "set"
    /\ _scp_thread_started' = TRUE
    /\ ensure' = [ensure EXCEPT ![t] = "idle"]
    /\ UNCHANGED <<auxVars, webVars, pacsVars, lockVars, saveVars, RECEIVED_IMAGES, scpThreads, handler, reader, notified>>

\* a record appended before its Timestamp is filled in
ReceivedRecordUntimed(ds, t) ==
    [PatientName |-> GetOr(ds, "PatientName", <<"U","n","k","n","o","w","n">>),
     PatientID |-> GetOr(ds, "PatientID", <<>>),
     StudyInstanceUID |-> GetOr(ds, "StudyInstanceUID", <<"U","n","k","n","o","w","n">>),
     Modality |-> GetOr(ds, "Modality", <<"O","T">>)]

\* the record handle_store builds from the dataset ds at second t
ReceivedRecord(ds, t) ==
    [PatientName |-> GetOr(ds, "PatientName", <<"U","n","k","n","o","w","n">>),
     PatientID |-> GetOr(ds, "PatientID", <<>>),
     StudyInstanceUID |-> GetOr(ds, "StudyInstanceUID", <<"U","n","k","n","o","w","n">>),
     Modality |-> GetOr(ds, "Modality", <<"O","T">>),
     Timestamp |-> t]

\* a store notification reaches a free association thread of the listener
Notify(h, ds) ==
    /\ scpThreads >= 1
    /\ notified < MaxNotifications
    /\ handler[h].pc = "idle"
    /\ handler' = [handler EXCEPT ![h] = [pc |-> "build", ds |-> ds, record |-> EmptyDict]]
    /\ notified' = notified + 1
    /\ UNCHANGED <<auxVars, webVars, pacsVars, lockVars, saveVars, RECEIVED_IMAGES, startVars, reader>>

\* handle_store: the dict display is evaluated ...
HandleStoreBuild(h) ==
    /\ handler[h].pc = "build"
    /\ handler' = [handler EXCEPT ![h] = [pc |-> "append", ds |-> handler[h].ds,
                                          record |-> ReceivedRecord(handler[h].ds, now)]]
    /\ UNCHANGED <<auxVars, webVars, pacsVars, lockVars, saveVars, RECEIVED_IMAGES, startVars, reader, notified>>

\* ... and RECEIVED_IMAGES.append is called with it
HandleStoreAppend(h) ==
    /\ handler[h].pc = "append"
    /\ RECEIVED_IMAGES' = Append(RECEIVED_IMAGES, handler[h].record)
    /\ handler' = [handler EXCEPT ![h] = [pc |-> "idle", ds |-> EmptyDict, record |-> EmptyDict]]
    /\ UNCHANGED <<auxVars, webVars, pacsVars, lockVars, saveVars, startVars, reader, notified>>

\* received_images_for_code is called: list(RECEIVED_IMAGES) for the empty
\* code, else the comprehension starts at the head of the list
ReadBegin(r, code0) ==
    LET code == Strip(code0)
    IN  /\ reader[r].pc \in {"idle", "done"}
        /\ reader' = [reader EXCEPT ![r] =
               IF code # <<>> THEN [pc |-> "iter", code |-> code, i |-> 0, out |-> <<>>]
               ELSE [pc |-> "done", code |-> code, i |-> 0, out |-> RECEIVED_IMAGES]]
        /\ UNCHANGED <<auxVars, webVars, pacsVars, lockVars, saveVars, RECEIVED_IMAGES, startVars, handler, notified>>

\* a comprehension without its condition
ReadNextUnfiltered(r) ==
    LET me == reader[r]
        rec == RECEIVED_IMAGES[me.i + 1]
    IN  /\ me.pc = "iter"
        /\ reader' = [reader EXCEPT ![r] =
               IF me.i >= Len(RECEIVED_IMAGES) THEN [me EXCEPT !.pc = "done"]
               ELSE [me EXCEPT !.i = me.i + 1, !.out = Append(me.out, rec)]]
        /\ UNCHANGED <<auxVars, webVars, pacsVars, lockVars, saveVars, RECEIVED_IMAGES, startVars, handler, notified>>

\* received_images_for_code: the comprehension takes the next element of the
\* list as it is now, or ends
ReadNext(r) ==
    LET me == reader[r]
        rec == RECEIVED_IMAGES[me.i + 1]
    IN  /\ me.pc = "iter"
        /\ reader' = [reader EXCEPT ![r] =
               IF me.i >= Len(RECEIVED_IMAGES) THEN [me EXCEPT !.pc = "done"]
               ELSE [me EXCEPT !.i = me.i + 1,
                               !.out = IF StartsWith(GetOr(rec, "PatientID", <<>>),
                                                     me.code \o <<"-">>)
                                       THEN Append(me.out, rec) ELSE me.out]]
        /\ UNCHANGED <<auxVars, webVars, pacsVars, lockVars, saveVars, RECEIVED_IMAGES, startVars, handler, notified>>

NextReceive ==
    \/ \E t \in Callers : EnsureCheck(t)
    \/ \E t \in Callers : EnsureStart(t)
    \/ \E t \in Callers : EnsureSet(t)
    \/ \E h \in Handlers, ds \in Datasets : Notify(h, ds)
    \/ \E h \in Handlers : HandleStoreBuild(h)
    \/ \E h \in Handlers : HandleStoreAppend(h)
    \/ \E r \in Readers, code \in ReaderCodes : ReadBegin(r, code)
    \/ \E r \in Readers : ReadNext(r)

SpecReceive == Init /\ [][NextReceive]_vars

-----------------------------------------------------------------------------
(* simlib/dicom_receiver.py called in sequence: the store handler, the demo
   seeding and the grouping of a tenant's records into studies *)

\* the characters of the model in the order of their code points
Ascii == <<"-", ".", "0","1","2","3","4","5","6","7","8","9">> \o UpperSeq
           \o <<"^", "_">> \o LowerSeq

Ord(ch) == CHOOSE i \in 1..Len(Ascii) : Ascii[i] = ch

\* a < b for two str
RECURSIVE StrLess(_, _)
StrLess(a, b) ==
    IF b = <<>> THEN FALSE
    ELSE IF a = <<>> THEN TRUE
    ELSE IF Head(a) = Head(b) THEN StrLess(Tail(a), Tail(b))
    ELSE Ord(Head(a)) < Ord(Head(b))

\* sorted(set of str)
RECURSIVE SortedStrings(_)
SortedStrings(S) ==
    IF S = {} THEN <<>>
    ELSE LET least == CHOOSE x \in S : \A y \in S \ {x} : StrLess(x, y)
         IN  <<least>> \o SortedStrings(S \ {least})

\* ','.join(seq of str)
RECURSIVE JoinComma(_)
JoinComma(parts) ==
    IF parts = <<>> THEN <<>>
    ELSE IF Len(parts) = 1 THEN parts[1]
    ELSE parts[1] \o <<",">> \o JoinComma(Tail(parts))

\* the key of out.sort: (PatientName, StudyInstanceUID) compared as tuples
GroupKeyLess(x, y) ==
    \/ StrLess(x.PatientName, y.PatientName)
    \/ x.PatientName = y.PatientName /\ StrLess(x.StudyInstanceUID, y.StudyInstanceUID)

\* list.sort(key=...): stable, one element inserted after the others
RECURSIVE SortGroups(_)
SortGroups(rows) ==
    IF rows = <<>> THEN <<>>
    ELSE LET rest == SortGroups(SubSeq(rows, 1, Len(rows) - 1))
             x == rows[Len(rows)]
             before == SelectSeq(rest, LAMBDA y : ~GroupKeyLess(x, y))
             after == SelectSeq(rest, LAMBDA y : GroupKeyLess(x, y))
         IN  before \o <<x>> \o after

\* str(row.get('StudyInstanceUID') or 'Unknown').strip() or 'Unknown'
StudyUid(row) ==
    LET raw == GetOr(row, "StudyInstanceUID", <<>>)
        text == Strip(IF raw = <<>> THEN <<"U","n","k","n","o","w","n">> ELSE raw)
    IN  IF text = <<>> THEN <<"U","n","k","n","o","w","n">> ELSE text

\* the loop over the records: groups is the dict in its insertion order
RECURSIVE GroupLoop(_, _)
GroupLoop(rows, groups) ==
    IF rows = <<>> THEN groups
    ELSE LET row == Head(rows)
             uid == StudyUid(row)
             fresh == [StudyInstanceUID |-> uid,
                       PatientName |-> GetOr(row, "PatientName", <<>>),
                       PatientID |-> GetOr(row, "PatientID", <<>>),
                       Modalities |-> {},
                       Count |-> 0,
                       LastTimestamp |-> row.Timestamp]
             known == \E k \in 1..Len(groups) : groups[k].StudyInstanceUID = uid
             all == IF known THEN groups ELSE Append(groups, fresh)
             at == CHOOSE k \in 1..Len(all) : all[k].StudyInstanceUID = uid
             mod == Strip(GetOr(row, "Modality", <<>>))
             g == all[at]
             g2 == [g EXCEPT !.Count = g.Count + 1,
                             !.Modalities = IF mod # <<>> THEN g.Modalities \cup {mod}
                                            ELSE g.Modalities,
                             !.LastTimestamp = row.Timestamp]
         IN  GroupLoop(Tail(rows), [all EXCEPT ![at] = g2])

\* a grouping that makes one row of every record
GroupPerRecord(received) ==
    SortGroups([i \in 1..Len(received) |->
        [StudyInstanceUID |-> StudyUid(received[i]),
         PatientName |-> GetOr(received[i], "PatientName", <<>>),
         PatientID |-> GetOr(received[i], "PatientID", <<>>),
         Modalities |-> Strip(GetOr(received[i], "Modality", <<>>)),
         Count |-> 1,
         LastTimestamp |-> received[i].Timestamp]])

received_study_groups(received) ==
    LET groups == GroupLoop(received, <<>>)
    IN  SortGroups([k \in 1..Len(groups) |->
            [groups[k] EXCEPT !.Modalities = JoinComma(SortedStrings(groups[k].Modalities))]])

DemoRecord ==
    [PatientName |-> <<"T","E","S","T","^","D","E","M","O">>,
     PatientID |-> <<"D","E","M","O","-","0","0","0","1">>,
     StudyInstanceUID |-> <<"1",".","2",".","8","2","6",".","0",".","1",".",
                            "3","6","8","0","0","4","3",".","1","0",".","9","9","9",".","1">>,
     Modality |-> <<"C","T">>,
     Timestamp |-> 0]

GroupDatasets ==
    { [PatientName |-> <<"A","n","n">>, PatientID |-> <<"S","U","S","-","1">>,
       StudyInstanceUID |-> <<"1",".","3">>, Modality |-> <<"C","T">>],
      [PatientName |-> <<"A","n","n">>, PatientID |-> <<"S","U","S","-","1">>,
       StudyInstanceUID |-> <<"1",".","3">>, Modality |-> <<"M","R">>],
      [PatientName |-> <<"B","o","b">>, PatientID |-> <<"O","T","H","-","2">>,
       StudyInstanceUID |-> <<"1",".","2">>, Modality |-> <<"M","R">>],
      [PatientName |-> <<"A","n","n">>, PatientID |-> <<"S","U","S","-","1">>,
       StudyInstanceUID |-> <<>>, Modality |-> <<"C","T">>],
      EmptyDict }

GroupCodes == { <<"S","U","S">>, <<>> }

\* handle_store from its first line to its return
HandleStore(ds) ==
    /\ notified < MaxNotifications
    /\ notified' = notified + 1
    /\ RECEIVED_IMAGES' = Append(RECEIVED_IMAGES, ReceivedRecord(ds, now))
    /\ UNCHANGED <<auxVars, webVars, pacsVars, lockVars, saveVars, startVars, handler, reader>>

seed_demo_received_images ==
    /\ RECEIVED_IMAGES' = IF RECEIVED_IMAGES # <<>> THEN RECEIVED_IMAGES
                          ELSE Append(RECEIVED_IMAGES, DemoRecord)
    /\ UNCHANGED <<auxVars, webVars, pacsVars, lockVars, saveVars, startVars, handler, reader, notified>>

\* routes_workstation: received_study_groups(received_images_for_code(code))
ReceivedStudyGroups(code) ==
    LET received == received_images_for_code(RECEIVED_IMAGES, code)
    IN  /\ called' = Call3("received_study_groups", received,
                           Returned(received_study_groups(received)))
        /\ UNCHANGED <<inserted, is_admin, page, pureVars, webVars, extVars>>

NextGroups ==
    \/ \E ds \in GroupDatasets : HandleStore(ds)
    \/ seed_demo_received_images
    \/ \E code \in GroupCodes : ReceivedStudyGroups(code)

SpecGroups == Init /\ [][NextGroups]_vars

-----------------------------------------------------------------------------
(* routes_workstation.workstation_report: the reports of one tenant *)

ReportClients == {"b1"}
ReportCodes == { <<"S","U","S">> }
ReportUids == { <<" ","1",".","3"," ">>, <<"9">>, <<" ">> }
ReportTexts == { <<"x">>, <<"y">> }
ReportDatasets ==
    { [PatientName |-> <<"A","n","n">>, PatientID |-> <<"S","U","S","-","1">>,
       StudyInstanceUID |-> <<"1",".","3">>, Modality |-> <<"C","T">>] }
MaxReports == 4

\* workstation_report from the form to the saved documents; the HL7 text it
\* keeps in the session for display is not part of the state
WorkstationReport(c, study_uid0, report_text0) ==
    LET code == get_student_code(session[c])
        study_uid == Strip(study_uid0)
        report_text == Strip(report_text0)
        received == received_images_for_code(RECEIVED_IMAGES, code)
        hits == {i \in 1..Len(received) :
                    Strip(GetOr(received[i], "StudyInstanceUID", <<>>)) = study_uid}
        match == received[CHOOSE i \in hits : \A j \in hits : i <= j]
        pid0 == Strip(GetOr(match, "PatientID", <<>>))
        pid == IF pid0 = <<>> THEN <<"U","N","K","N","O","W","N">> ELSE pid0
        path == reports_file_for_code(code)
        reports == ReportAppend(load_reports(files, code), pid, report_text, now)
        saved == save_reports(files, code, reports, now)
    IN  /\ GatePasses(c)
        /\ IF study_uid = <<>> \/ hits = {}
           THEN UNCHANGED <<files, firstAt, prevStatus, inserted>>
           ELSE /\ TotalInserts(inserted) < MaxReports
                /\ files' = update_patient_last_exam(saved, code, pid, <<>>, <<>>, Reported, now)
                /\ firstAt' = FirstAtAfter(firstAt, saved, code, pid, Reported, now)
                /\ prevStatus' = PrevStatusAfter(prevStatus, saved, code, pid, Reported)
                /\ inserted' = Put(inserted, path,
                                   Append(GetOr(inserted, path, <<>>), reports[Len(reports)]))
        /\ UNCHANGED <<session, now, registeredUnder, extVars, is_admin, page, called, pureVars>>

NextReports ==
    \/ \E c \in ReportClients, raw \in ReportCodes : Join(c, raw)
    \/ \E ds \in ReportDatasets : HandleStore(ds)
    \/ \E c \in ReportClients, uid \in ReportUids, text \in ReportTexts :
          WorkstationReport(c, uid, text)
    \/ Tick

SpecReports == Init /\ [][NextReports]_vars

-----------------------------------------------------------------------------
(* workstation_report with images of two tenants in the received list *)

TenantClients == {"b1"}
TenantCodes == { <<"S","U","S">>, <<"O","T","H">> }
TenantNames == { <<"A","n","n">> }
TenantPids == { <<"1">> }
TenantUids == { <<"1",".","3">>, <<"2",".","5">> }
TenantTexts == { <<"x">> }
\* one study with an image of each tenant, and one with an image of OTH only
TenantDatasets ==
    { [PatientName |-> <<"A","n","n">>, PatientID |-> <<"S","U","S","-","1">>,
       StudyInstanceUID |-> <<"1",".","3">>, Modality |-> <<"C","T">>],
      [PatientName |-> <<"A","n","n">>, PatientID |-> <<"O","T","H","-","1">>,
       StudyInstanceUID |-> <<"1",".","3">>, Modality |-> <<"C","T">>],
      [PatientName |-> <<"A","n","n">>, PatientID |-> <<"O","T","H","-","1">>,
       StudyInstanceUID |-> <<"2",".","5">>, Modality |-> <<"C","T">>] }

NextTenant ==
    \/ \E c \in TenantClients, raw \in TenantCodes : Join(c, raw)
    \/ \E c \in TenantClients, n \in TenantNames, p \in TenantPids :
          /\ KisRegisterPatient(c, n, p)
          /\ TotalInserts(inserted') <= MaxReports
    \/ \E ds \in TenantDatasets : HandleStore(ds)
    \/ \E c \in TenantClients, uid \in TenantUids, text \in TenantTexts :
          WorkstationReport(c, uid, text)

SpecTenant == Init /\ [][NextTenant]_vars

-----------------------------------------------------------------------------

(* Registration with identifiers typed with and without a tenant prefix *)

PrefixClients == {"b1"}
PrefixCodes == { <<"S","U","S">>, <<"S","U","S","-","A">> }
PrefixNames == { <<"A","n","n">> }
\* the identifiers typed into the registration form
PrefixTyped == { <<"1">>, <<"S","U","S","-","2">>, <<"O","T","H","-","3">> }
\* identifiers given to prefix_for_student: bare, prefixed with the own or another tenant's code,
\* the prefix alone, the code without its dash, padded with blanks
PrefixPids == { <<"1">>, <<"S","U","S","-","2">>, <<"O","T","H","-","3">>,
                <<"S","U","S","-">>, <<"S","U","S">>, <<" ","S","U","S","-","2"," ">>,
                <<" ">> }

NextPrefix ==
    \/ \E c \in PrefixClients, raw \in PrefixCodes : Join(c, raw)
    \/ \E c \in PrefixClients, n \in PrefixNames, p \in PrefixTyped :
          /\ KisRegisterPatient(c, n, p)
          /\ TotalInserts(inserted') <= MaxInserts
    \/ \E c \in PrefixClients : ClearStudent(c)

SpecPrefix == Init /\ [][NextPrefix]_vars

-----------------------------------------------------------------------------
(* The grouping applied to a list filled by two association threads while the
   clock runs *)

LatestCallers == {"main"}
LatestDatasets ==
    { [PatientName |-> <<"A","n","n">>, PatientID |-> <<"S","U","S","-","1">>,
       StudyInstanceUID |-> <<"1",".","3">>, Modality |-> <<"C","T">>] }
LatestCodes == { <<"S","U","S">> }

NextLatest ==
    \/ \E t \in LatestCallers : EnsureCheck(t)
    \/ \E t \in LatestCallers : EnsureStart(t)
    \/ \E t \in LatestCallers : EnsureSet(t)
    \/ \E h \in Handlers, ds \in LatestDatasets : Notify(h, ds)
    \/ \E h \in Handlers : HandleStoreBuild(h)
    \/ \E h \in Handlers : HandleStoreAppend(h)
    \/ \E code \in LatestCodes : ReceivedStudyGroups(code)
    \/ Tick

SpecLatest == Init /\ [][NextLatest]_vars

(* routes_modality.scan, one statement group per step *)

ScanWorkers == {"t1"}
ScanClients == {"b1"}
ScanCodes == { <<"S","U","S">> }
ScanNames == { <<"A","n","n">> }
ScanPids == { <<"1">> }
ScanAccs == { <<"7">> }

\* a scan that marks the exam Completed whatever the transfer returned
ScanFinishAlways(w) ==
    LET me == worker[w]
        code == me.local.code
    IN  /\ me.op = "scan" /\ me.pc \in {"sent_ok", "sent_failed"}
        /\ files' = update_patient_last_exam(files, code, me.pid, me.local.acc, <<>>, Completed, now)
        /\ firstAt' = FirstAtAfter(firstAt, files, code, me.pid, Completed, now)
        /\ prevStatus' = PrevStatusAfter(prevStatus, files, code, me.pid, Completed)
        /\ worker' = [worker EXCEPT ![w] = IdleWorker]
        /\ UNCHANGED <<auxVars, session, now, registeredUnder, pacsVars, scpVars, locks, applied, saveVars>>

\* lines 106-115: the form is read and the exam is moved to Started
ScanBegin(w, c, pid_raw, acc_raw) ==
    LET pid == prefix_for_student(pid_raw, session[c])
        acc == prefix_for_student(acc_raw, session[c])
        code == get_student_code(session[c])
    IN  /\ GatePasses(c)
        /\ worker[w].pc = "idle"
        /\ files' = update_patient_last_exam(files, code, pid, acc, <<>>, Started, now)
        /\ firstAt' = FirstAtAfter(firstAt, files, code, pid, Started, now)
        /\ prevStatus' = PrevStatusAfter(prevStatus, files, code, pid, Started)
        /\ worker' = [worker EXCEPT ![w] = [pc |-> "sending", op |-> "scan", pid |-> pid,
                                            local |-> [code |-> code, acc |-> acc]]]
        /\ UNCHANGED <<auxVars, session, now, registeredUnder, pacsVars, scpVars, locks, applied, saveVars>>

\* lines 117-128, 145: send_c_store / send_c_store_uploaded_files; `stored`
\* tells whether the archive answered 0x0000 for an image (status.Status ==
\* 0x0000, summary['ok'] > 0)
ScanSend(w, stored, retag, file_pid) ==
    LET me == worker[w]
    IN  /\ me.op = "scan" /\ me.pc = "sending"
        /\ IF stored
           THEN \E uid \in InstanceUids :
                   orthanc' = OrthancStore(orthanc, IF retag THEN me.pid ELSE file_pid,
                                           me.local.acc, uid)
           ELSE UNCHANGED orthanc
        /\ worker' = [worker EXCEPT ![w].pc = IF stored THEN "sent_ok" ELSE "sent_failed"]
        /\ UNCHANGED <<auxVars, webVars, response, scpVars, locks, applied, saveVars>>

\* lines 142-143, 148-149: the exam is moved to Completed after an accepted image
ScanFinish(w) ==
    LET me == worker[w]
        code == me.local.code
    IN  /\ me.op = "scan" /\ me.pc \in {"sent_ok", "sent_failed"}
        /\ IF me.pc = "sent_ok"
           THEN /\ files' = update_patient_last_exam(files, code, me.pid, me.local.acc, <<>>, Completed, now)
                /\ firstAt' = FirstAtAfter(firstAt, files, code, me.pid, Completed, now)
                /\ prevStatus' = PrevStatusAfter(prevStatus, files, code, me.pid, Completed)
           ELSE UNCHANGED <<files, firstAt, prevStatus>>
        /\ worker' = [worker EXCEPT ![w] = IdleWorker]
        /\ UNCHANGED <<auxVars, session, now, registeredUnder, pacsVars, scpVars, locks, applied, saveVars>>

NextScan ==
    \/ \E c \in ScanClients, raw \in ScanCodes : Join(c, raw)
    \/ \E c \in ScanClients, n \in ScanNames, p \in ScanPids : KisRegisterPatient(c, n, p)
    \/ \E w \in ScanWorkers, c \in ScanClients, p \in ScanPids, a \in ScanAccs : ScanBegin(w, c, p, a)
    \/ \E w \in ScanWorkers, ok \in BOOLEAN, retag \in BOOLEAN, fp \in FilePids : ScanSend(w, ok, retag, fp)
    \/ \E w \in ScanWorkers : ScanFinish(w)
    \/ Tick

SpecScan == Init /\ [][NextScan]_vars

-----------------------------------------------------------------------------

-----------------------------------------------------------------------------
(* The archive and its read routes *)

PacsCodes == { <<"S","U","S">>, <<"O","T","H">> }
PacsAccs == { <<"7">> }
MissingId == <<"missing">>

NextPacs ==
    \/ \E c \in Clients, raw \in PacsCodes : Join(c, raw)
    \/ \E c \in Clients : ClearStudent(c)
    \/ \E c \in Clients, p \in ExamPids, a \in PacsAccs, ok \in BOOLEAN,
          retag \in BOOLEAN, fp \in FilePids : Scan(c, p, a, ok, retag, fp)
    \/ \E c \in Clients : pacs_home(c)
    \/ \E c \in Clients, id \in DOMAIN orthanc.studies \cup {MissingId} : pacs_study(c, id)
    \/ \E c \in Clients, id \in DOMAIN orthanc.series \cup {MissingId} : pacs_series(c, id)
    \/ \E c \in Clients, id \in DOMAIN orthanc.instances \cup {MissingId},
          se \in DOMAIN orthanc.series \cup {MissingId, <<>>} : pacs_instance(c, id, se)
    \/ \E c \in Clients, id \in DOMAIN orthanc.instances \cup {MissingId} :
          pacs_instance_preview(c, id)
    \/ \E c \in Clients : viewer(c)

SpecPacs == Init /\ [][NextPacs]_vars

-----------------------------------------------------------------------------
(* Tenant isolation of the store and of the prefix rule *)

\* the tenant codes of the sessions that pass the gate
TenantOf(c) == get_student_code(session[c])

\* C1: for any two distinct canonical tenant codes A and B, once a patient has
\* been registered under A, the patients and the reports documents of A and B
\* are different files and load_patients(B) does not return that patient.
C1_TenantDocumentsSeparate ==
    \A r \in registeredUnder : \A b \in Clients :
        (TenantOf(b) # <<>> /\ TenantOf(b) # r[3]) =>
            /\ patients_file_for_code(TenantOf(b)) # patients_file_for_code(r[3])
            /\ reports_file_for_code(TenantOf(b)) # reports_file_for_code(r[3])
            /\ \/ patients_file_for_code(TenantOf(b)) # r[1]
               \/ \A i \in 1..Len(load_patients(files, TenantOf(b))) :
                     load_patients(files, TenantOf(b))[i].pid # r[2]

\* C2: for any two distinct canonical tenant codes A and B, no patient identifier
\* created under A is visible to B, neither under the rule of
\* received_images_for_code nor under the rule of _study_visible_for_student.
C2_ForeignPidNeverVisible ==
    \A r \in registeredUnder : \A b \in Clients :
        (TenantOf(b) # <<>> /\ TenantOf(b) # r[3]) =>
            /\ received_images_for_code(<<[PatientID |-> r[2]]>>, TenantOf(b)) = <<>>
            /\ ~_study_visible_for_student(
                    [PatientMainDicomTags |-> [PatientID |-> r[2]]], TenantOf(b))

\* C3: _study_visible_for_student(record, tenant) is true exactly when tenant is
\* non-empty and the PatientID the record carries (under PatientMainDicomTags
\* or under MainDicomTags) starts with tenant + '-'; for the empty tenant it is
\* false for every record.
C3_VisibleIffPrefixed ==
    \A st \in DOMAIN orthanc.studies : \A c \in Clients :
        LET record == orthanc.studies[st]
            tenant == session[c]
        IN  /\ _study_visible_for_student(record, tenant) <=>
                  /\ tenant # <<>>
                  /\ \E section \in {"PatientMainDicomTags", "MainDicomTags"} :
                        StartsWith(SectionPatientID(record, section), tenant \o <<"-">>)
            /\ tenant = <<>> => ~_study_visible_for_student(record, tenant)

\* witness of C3: the archive holds a study a tenant sees, a study the same
\* tenant does not see, and a study whose PatientID starts with '-' while a
\* browser has the empty tenant
C3_Witness ==
    \E s1, s2, s3 \in DOMAIN orthanc.studies : \E c1, c2 \in Clients :
        /\ _study_visible_for_student(orthanc.studies[s1], session[c1])
        /\ session[c1] # <<>>
        /\ ~_study_visible_for_student(orthanc.studies[s2], session[c1])
        /\ session[c2] = <<>>
        /\ StartsWith(orthanc.studies[s3].PatientMainDicomTags.PatientID, <<"-">>)

\* C4: every read route that returns archive content or received-image records
\* returns only content that passes the prefix rule for the requesting tenant:
\* every PatientID in a response starts with the tenant code + '-'.
C4_ResponsesPassPrefixCheck ==
    \A pid \in response.pids : StartsWith(pid, response.code \o <<"-">>)

-----------------------------------------------------------------------------
(* The patients document *)

\* the patients documents of the data directory
PatientPaths ==
    {path \in DOMAIN files : Shape(files[path]) = "object" /\ "patients" \in DOMAIN files[path]}

\* the positions of the records with identifier pid in a list of records
PositionsOf(patients, pid) == {i \in 1..Len(patients) : patients[i].pid = pid}

\* C11: no two records of a patients document share a patient identifier, and
\* a registration with an identifier already present adds no record but
\* leaves the one record of that identifier with the name just supplied.
C11_OneRecordPerIdentifier ==
    /\ [](\A path \in PatientPaths : \A i, j \in 1..Len(files[path].patients) :
            files[path].patients[i].pid = files[path].patients[j].pid => i = j)
    /\ [][\A c \in Clients, n \in Names, p \in RawPids :
            (/\ Strip(n) # <<>> /\ Strip(p) # <<>>
             /\ KisRegisterPatient(c, n, p))
            => LET code == get_student_code(session[c])
                   pid == prefix_for_student(p, session[c])
                   before == load_patients(files, code)
                   after == load_patients(files', code)
               IN  /\ Cardinality(PositionsOf(after, pid)) = 1
                   /\ after[FindPid(after, pid)].name = Strip(n)
                   /\ FindPid(before, pid) # 0 =>
                         /\ Len(after) = Len(before)
                         /\ FindPid(after, pid) = FindPid(before, pid)
          ]_vars

\* witness of C11: a record whose name was replaced in place by a second
\* registration of its identifier
C11_Witness ==
    \E path \in PatientPaths : \E i \in 1..Len(files[path].patients) :
        /\ "updated_at" \in DOMAIN files[path].patients[i]
        /\ files[path].patients[i].name = <<"B","o","b">>

\* the identifiers of a list of records, in the order of the list
PidSeq(patients) == [i \in 1..Len(patients) |-> patients[i].pid]

\* C12: a patients document holds at most KeepLast records (50 in the
\* program): the identifiers most recently added as new records, in the order
\* they were added; registering an identifier the document already holds
\* evicts nothing and moves nothing.
C12_KeepsMostRecentInsertions ==
    \A path \in PatientPaths :
        /\ Len(files[path].patients) <= KeepLast
        /\ PidSeq(files[path].patients) = LastN(GetOr(inserted, path, <<>>), KeepLast)

\* witness of C12: a document that has evicted a record and afterwards had a
\* record it still holds registered again
C12_Witness ==
    \E path \in PatientPaths :
        /\ Len(GetOr(inserted, path, <<>>)) > KeepLast
        /\ \E i \in 1..Len(files[path].patients) :
              /\ "updated_at" \in DOMAIN files[path].patients[i]
              /\ files[path].patients[i].pid = inserted[path][Len(inserted[path]) - 1]

-----------------------------------------------------------------------------
(* The registry and the sessions *)

\* the codes of the registry document
RegistryCodes == {load_session_codes(files)[i] : i \in 1..Len(load_session_codes(files))}

\* C13: while the registry is non-empty, every session whose requests pass
\* the tenant gate holds a code that is a member of the registry, also after
\* the registry was regenerated while the session existed.
C13_GatePassersAreMembers ==
    \A c \in Clients :
        (RegistryCodes # {} /\ GatePasses(c)) => get_student_code(session[c]) \in RegistryCodes

\* C15: the tenant code of a session only changes to the normalized form of
\* the input submitted to join or set_student, and only when that form is
\* non-empty and allowed by the registry at that moment; every other change
\* removes the code.
C15_StoredCodeIsCheckedInput ==
    [][\A c \in Clients :
          session'[c] # session[c] =>
            \/ session'[c] = <<>>
            \/ \E raw \in RegRawCodes :
                  /\ Join(c, raw) \/ SetStudent(c, raw)
                  /\ session'[c] = normalize_student_code(raw)
                  /\ session'[c] # <<>>
                  /\ student_code_allowed(files, session'[c])
      ]_vars

\* witness of C15: a session that stored a code listed in a non-empty registry
\* while another browser holds none
C15_Witness ==
    /\ RegistryCodes # {}
    /\ session["b2"] \in RegistryCodes
    /\ session["b1"] = <<>>

\* C16: a request for an endpoint outside the gate's allow-list and not under
\* /admin, from a session without a non-empty normalized tenant code, does not
\* reach the route handler and is answered by a redirect to the welcome page;
\* the welcome page is served to a session without a code, and the index page
\* to a session with one.
C16_GateRedirectsWithoutCode ==
    [][\A c \in Clients, rq \in PageRequests :
          Request(c, rq) =>
            LET code == normalize_student_code(session[c])
                gated == /\ rq.endpoint \notin allowed_endpoints
                         /\ ~StartsWith(rq.path, <<"/","a","d","m","i","n">>)
            IN  /\ (gated /\ code = <<>>) =>
                      (~page'.ran /\ page'.status = 302 /\ page'.target = "main.welcome")
                /\ (rq.endpoint = "main.welcome" /\ code = <<>>) =>
                      (page'.ran /\ page'.status = 200 /\ page'.target = "welcome.html")
                /\ (rq.endpoint = "main.index" /\ code # <<>>) =>
                      (page'.ran /\ page'.status = 200 /\ page'.target = "index.html")
      ]_vars

\* witness of C16: a request for the index page redirected to the welcome page
C16_Witness ==
    /\ page.endpoint = "main.index"
    /\ page.status = 302
    /\ session[page.client] = <<>>

\* C17: normalize_student_code returns only characters of [A-Za-z0-9_-], at
\* most 24 of them, and the empty code for the empty input; applied to its
\* own result it returns that result.
C17_NormalizeIsIdempotent ==
    /\ "once" \in DOMAIN norm =>
          /\ \A i \in 1..Len(norm.once) :
                norm.once[i] \in Upper \cup Lower \cup Digit \cup {"_", "-"}
          /\ Len(norm.once) <= 24
          /\ norm.raw = <<>> => norm.once = <<>>
    /\ "twice" \in DOMAIN norm => norm.twice = norm.once

\* witness of C17: a raw code cut to 24 characters and normalized again
C17_Witness ==
    /\ "twice" \in DOMAIN norm
    /\ Len(norm.raw) > 24
    /\ Len(norm.once) = 24

\* C19: for every integer n, generate_session_codes(n) returns exactly
\* min(max(n, 1), cap) codes (cap is 200 in the program), pairwise distinct,
\* each 'SUS-' followed by six uppercase hexadecimal characters.
C19_GeneratesClampedCount ==
    GenReturns(gen.n, gen.tokens) =>
        LET out == generate_session_codes(gen.n, gen.tokens)
        IN  /\ Len(out) = Min(Max(gen.n, 1), GenCap)
            /\ \A k, m \in 1..Len(out) : k # m => out[k] # out[m]
            /\ \A k \in 1..Len(out) :
                  /\ Len(out[k]) = 10
                  /\ SubSeq(out[k], 1, 4) = <<"S","U","S","-">>
                  /\ \A i \in 5..10 : out[k][i] \in Digit \cup {"A","B","C","D","E","F"}

\* C14: student_code_allowed(code) holds exactly when the normalized code is
\* non-empty and the registry is open (no document, a document that cannot be
\* read, parsed or used, or one without a valid code) or lists the normalized
\* code; the empty code is never allowed.
C14_AllowedIffOpenOrMember ==
    called.fn = "student_code_allowed" =>
        LET code == normalize_student_code(called.arg)
            usable == /\ SESSIONS_FILE \in DOMAIN files
                      /\ Shape(files[SESSIONS_FILE]) = "object"
                      /\ "codes" \in DOMAIN files[SESSIONS_FILE]
            members == IF usable
                       THEN {normalize_student_code(files[SESSIONS_FILE].codes[i]) :
                               i \in 1..Len(files[SESSIONS_FILE].codes)} \ {<<>>}
                       ELSE {}
        IN  /\ ~called.outcome.raised
            /\ called.outcome.value <=> (code # <<>> /\ (members = {} \/ code \in members))

\* witness of C14: a code allowed because the registry document is damaged
C14_Witness ==
    /\ called.fn = "student_code_allowed"
    /\ called.outcome.value
    /\ SESSIONS_FILE \in DOMAIN files
    /\ Shape(files[SESSIONS_FILE]) \in Malformations

\* C18: save_session_codes(codes) followed by load_session_codes() returns
\* the normalized, non-empty codes of the input, each once, in the order of
\* their first occurrence, whatever the registry held before; for a generated
\* list of the default size that is as many distinct codes.
C18_RegistryRoundTrip ==
    [][/\ called'.fn = "save_session_codes" =>
            LET codes == called'.arg
                loaded == load_session_codes(files')
                canon(i) == normalize_student_code(codes[i])
                first(cc) == CHOOSE i \in 1..Len(codes) :
                                canon(i) = cc /\ \A j \in 1..(i - 1) : canon(j) # cc
            IN  /\ {loaded[k] : k \in 1..Len(loaded)} = {canon(i) : i \in 1..Len(codes)} \ {<<>>}
                /\ \A k, m \in 1..Len(loaded) :
                      k < m => loaded[k] # loaded[m] /\ first(loaded[k]) < first(loaded[m])
       /\ (/\ called'.fn = "maybe_auto_generate_sessions"
           /\ files' # files
           /\ AutoCount(Strip(called'.arg)) = GenDefault)
          => LET loaded == load_session_codes(files')
             IN  /\ Len(loaded) = GenDefault
                 /\ \A k, m \in 1..Len(loaded) : k # m => loaded[k] # loaded[m]
      ]_vars

\* witness of C18: a registry just saved from a list with an invalid entry and
\* a repeated code
C18_Witness ==
    /\ called.fn = "save_session_codes"
    /\ Len(load_session_codes(files)) = 2
    /\ Len(called.arg) = 4

\* C20: load_patients, load_reports and load_session_codes never raise; for a
\* document that is missing, unreadable, not JSON, not an object or without a
\* list under its item key they return the empty list; and they leave the
\* documents as they are.
C20_LoadsNeverRaise ==
    /\ [](called.fn \in {"load_patients", "load_reports", "load_session_codes"} =>
            LET path == CASE called.fn = "load_patients" -> patients_file_for_code(called.arg)
                          [] called.fn = "load_reports" -> reports_file_for_code(called.arg)
                          [] OTHER -> SESSIONS_FILE
                item == CASE called.fn = "load_patients" -> "patients"
                          [] called.fn = "load_reports" -> "reports"
                          [] OTHER -> "codes"
                bad == \/ path \notin DOMAIN files
                       \/ Shape(files[path]) \in Malformations
                       \/ item \notin DOMAIN files[path]
            IN  /\ ~called.outcome.raised
                /\ bad => called.outcome.value = <<>>)
    /\ [][called'.fn \in {"load_patients", "load_reports", "load_session_codes"}
            => files' = files]_vars

\* witness of C20: load_patients has returned the empty list for a document
\* that is not JSON
C20_Witness ==
    /\ called.fn = "load_patients"
    /\ patients_file_for_code(called.arg) \in DOMAIN files
    /\ Shape(files[patients_file_for_code(called.arg)]) = "not json"
    /\ called.outcome.value = <<>>

-----------------------------------------------------------------------------
(* Atomic replacement of the documents *)

SaveTargets == {SavePath(kind) : kind \in SaveKinds}

\* C8: at every point of a save the target document is whole: it holds the
\* complete prior content (or is still absent) or the complete new content, so
\* json.load never meets a partly written document; after a save that failed
\* or was cut short by the process stopping it holds the prior content.
C8_SaveIsAtomic ==
    /\ \A path \in SaveTargets : path \in DOMAIN disk => Complete(disk[path])
    /\ saver.pc # "idle" => Target(disk, saver.path) \in {saver.prior, saver.text}
    /\ saver.outcome \in {"failed", "stopped"} => Target(disk, saver.path) = saver.prior
    /\ saver.outcome = "saved" => Target(disk, saver.path) = saver.text

\* witness of C8: a save over an existing document failed or was cut short
\* after part of the new document had been written to the temporary file
C8_Witness ==
    /\ saver.outcome \in {"failed", "stopped"}
    /\ saver.prior # Absent /\ saver.prior # saver.text
    /\ TmpPath(saver.path) \in DOMAIN disk
    /\ disk[TmpPath(saver.path)] # <<>>
    /\ ~Complete(disk[TmpPath(saver.path)])

-----------------------------------------------------------------------------
(* Concurrent store operations *)

\* the patients document of the request threads' tenant
WorkerPatients == load_patients(files, WorkerCode)

\* C5: no update of a mutating store operation that has returned is lost to a
\* concurrent one: every upserted patient is in the patients document, every
\* exam transition applied to a record has left it a last_exam, and the
\* reports document holds every appended report up to the retention limit.
C5_NoLostUpdate ==
    /\ \A pid \in applied.upserted : FindPid(WorkerPatients, pid) # 0
    /\ \A pid \in applied.examined :
          /\ FindPid(WorkerPatients, pid) # 0
          /\ "last_exam" \in DOMAIN WorkerPatients[FindPid(WorkerPatients, pid)]
    /\ Len(load_reports(files, WorkerCode)) =
          IF applied.appended < KeepLast THEN applied.appended ELSE KeepLast

-----------------------------------------------------------------------------
(* The image-receipt listener *)

\* C6: the listener thread is started at most once, however many threads call
\* ensure_store_scp_thread_started and however their calls interleave.
C6_ListenerStartedAtMostOnce == scpThreads <= 1

FiveFields == {"PatientName", "PatientID", "StudyInstanceUID", "Modality", "Timestamp"}

\* the handlers between their notification and their append
InFlight == {h \in Handlers : handler[h].pc # "idle"}

\* C21: when received_images_for_code(tenant) returns for a non-empty tenant,
\* its result is exactly the records of the shared list whose PatientID starts
\* with tenant + '-', in their order of arrival; for the empty tenant it is
\* the full list.
C21_ReceivedForTenant ==
    [][\A r \in Readers :
          (reader'[r].pc = "done" /\ reader'[r] # reader[r]) =>
            LET list == RECEIVED_IMAGES'
                code == reader'[r].code
                out == reader'[r].out
                own == {i \in 1..Len(list) : StartsWith(list[i].PatientID, code \o <<"-">>)}
                nth(k) == CHOOSE i \in own : Cardinality({j \in own : j <= i}) = k
            IN  IF code = <<>> THEN out = list
                ELSE /\ Len(out) = Cardinality(own)
                     /\ \A k \in 1..Len(out) : out[k] = list[nth(k)]
      ]_vars

\* witness of C21: a read for a tenant has returned that tenant's records and
\* left out a record of the list that is not the tenant's
C21_Witness ==
    \E r \in Readers :
        /\ reader[r].pc = "done" /\ reader[r].code # <<>>
        /\ Len(reader[r].out) >= 2
        /\ Len(reader[r].out) < Len(RECEIVED_IMAGES)
        /\ Len(reader[r].out) = Len(received_images_for_code(RECEIVED_IMAGES, reader[r].code))

\* the number of records counted by the rows
RECURSIVE SumCounts(_)
SumCounts(rows) == IF rows = <<>> THEN 0 ELSE Head(rows).Count + SumCounts(Tail(rows))

\* C22: received_study_groups yields exactly one row per distinct study
\* identifier of its input; a row's Count is the number of input records with
\* that identifier, the counts sum to the length of the input, and its
\* Modalities is the comma-joined increasing sequence of the distinct
\* modalities of those records.
C22_OneRowPerStudy ==
    called.fn = "received_study_groups" =>
        LET rows == called.arg
            out == called.outcome.value
            ids == {StudyUid(rows[i]) : i \in 1..Len(rows)}
            members(k) == {i \in 1..Len(rows) : StudyUid(rows[i]) = out[k].StudyInstanceUID}
            mods(k) == {Strip(rows[i].Modality) : i \in members(k)} \ {<<>>}
        IN  /\ Len(out) = Cardinality(ids)
            /\ {out[k].StudyInstanceUID : k \in 1..Len(out)} = ids
            /\ SumCounts(out) = Len(rows)
            /\ \A k \in 1..Len(out) :
                  /\ out[k].Count = Cardinality(members(k))
                  /\ \E s \in [1..Cardinality(mods(k)) -> mods(k)] :
                        /\ \A a, b \in DOMAIN s : a < b => StrLess(s[a], s[b])
                        /\ out[k].Modalities = JoinComma(s)

\* witness of C22: three records of one study, CT, CT and MR, were grouped
\* into one row
C22_Witness ==
    /\ called.fn = "received_study_groups"
    /\ Len(called.arg) = 3
    /\ Len(called.outcome.value) = 1
    /\ called.outcome.value[1].Count = 3
    /\ called.outcome.value[1].Modalities = <<"C","T",",","M","R">>
    /\ called.arg[1].Modality = <<"M","R">>

\* C24: the shared list only grows at its end, and only the store handler
\* adds a record to it.
C24_AppendedByListenerOnly ==
    [][/\ StartsWith(RECEIVED_IMAGES', RECEIVED_IMAGES)
       /\ RECEIVED_IMAGES' # RECEIVED_IMAGES =>
             /\ notified' = notified + 1
             /\ \E ds \in GroupDatasets :
                   RECEIVED_IMAGES' = Append(RECEIVED_IMAGES, ReceivedRecord(ds, now))
      ]_vars

\* path is DATA_DIR joined with stem + safe + '.json' for a non-empty safe of
\* at most 64 characters of [A-Za-z0-9_.-]
DirectChild(path, stem) ==
    LET ext == <<".","j","s","o","n">>
        name == SubSeq(path, Len(DATA_DIR) + 1, Len(path))
        safe == SubSeq(name, Len(stem) + 1, Len(name) - Len(ext))
    IN  /\ StartsWith(path, DATA_DIR)
        /\ \A i \in 1..Len(name) : name[i] \notin {"/", "\\"}
        /\ Len(name) >= Len(stem) + Len(ext) + 1
        /\ name = stem \o safe \o ext
        /\ Len(safe) \in 1..64
        /\ \A i \in 1..Len(safe) :
              safe[i] \in Upper \cup Lower \cup Digit \cup {"_", ".", "-"}

\* C25: for every string given as the tenant code, patients_file_for_code and
\* reports_file_for_code return a direct child of the data directory: a file
\* name without a path separator, of the form patients_<safe>.json or
\* reports_<safe>.json, with <safe> non-empty, over [A-Za-z0-9_.-] and at most
\* 64 characters long.
C25_FilesAreDirectChildren ==
    /\ "patients" \in DOMAIN named =>
          DirectChild(named.patients, <<"p","a","t","i","e","n","t","s","_">>)
    /\ "reports" \in DOMAIN named =>
          DirectChild(named.reports, <<"r","e","p","o","r","t","s","_">>)

\* witness of C25: both names were computed for a code that holds a path
\* separator and a parent reference
C25_Witness ==
    /\ DOMAIN named = {"code", "patients", "reports"}
    /\ \E i \in 1..Len(named.code) : named.code[i] \in {"/", "\\"}
    /\ StartsWith(named.code, <<".", ".">>)
    /\ Len(named.code) > FileMaxLen

\* C27: a request rejected by validation writes no state: an empty or
\* disallowed code submitted to join or set_student leaves the session's code
\* unchanged, and a registration with a missing name or identifier leaves the
\* tenant's documents unchanged.
C27_RejectedRequestWritesNothing ==
    [][/\ \A c \in Clients, raw \in RawCodes :
             LET code == normalize_student_code(raw)
             IN  (/\ Join(c, raw) \/ SetStudent(c, raw)
                  /\ code = <<>> \/ ~student_code_allowed(files, code))
                 => session' = session
       /\ \A c \in Clients, n \in Names, p \in RawPids :
             (KisRegisterPatient(c, n, p) /\ (Strip(n) = <<>> \/ Strip(p) = <<>>))
                 => files' = files
      ]_vars

\* the reports of the tenant's document
StoredReports(code) == load_reports(files, code)

\* C30: after any sequence of report creations for one tenant, the tenant's
\* reports document holds at most 50 reports (KeepLast in the model), and they
\* are the most recently created ones in creation order; a stored report is
\* never modified afterwards.
C30_KeepsMostRecentReports ==
    \A code \in ReportCodes :
        LET created == GetOr(inserted, reports_file_for_code(code), <<>>)
        IN  /\ Len(StoredReports(code)) <= KeepLast
            /\ StoredReports(code) = LastN(created, KeepLast)

\* witness of C30: more reports were created than the document keeps, and the
\* oldest one is gone
C30_Witness ==
    \E code \in ReportCodes :
        LET created == GetOr(inserted, reports_file_for_code(code), <<>>)
        IN  /\ Len(created) > KeepLast
            /\ Len(StoredReports(code)) = KeepLast
            /\ \A i \in 1..Len(StoredReports(code)) : StoredReports(code)[i] # created[1]
            /\ StoredReports(code)[1].text # StoredReports(code)[KeepLast].text

\* C28: the response of pacs_study for a study that exists but belongs to
\* another tenant is the response it gives for an identifier that does not
\* exist in the archive.
C28_HiddenStudyLooksMissing ==
    [][\A c \in Clients, id \in DOMAIN orthanc.studies :
          (/\ pacs_study(c, id)
           /\ ~_study_visible_for_student(orthanc.studies[id], get_student_code(session[c])))
          => pacs_study(c, MissingId)
      ]_vars

\* the locks thread w holds
Held(w) == {l \in DOMAIN locks : locks[l] = w}

C29_CanonicalFormIsUppercase ==
    "once" \in DOMAIN norm =>
        /\ \A i \in 1..Len(norm.once) : norm.once[i] \notin Lower
        /\ norm.once = normalize_student_code(UpperStr(norm.raw))

\* C23: for a notification lacking any of patient name, patient id, study id
\* and modality, handle_store appends exactly one record in which every
\* missing field holds the sentinel "Unknown"; later notifications are still
\* appended.
C23_MissingFieldsAreUnknown ==
    [][\A h \in Handlers :
          HandleStoreAppend(h) =>
            /\ Len(RECEIVED_IMAGES') = Len(RECEIVED_IMAGES) + 1
            /\ \A f \in {"PatientName", "PatientID", "StudyInstanceUID", "Modality"} :
                  f \notin DOMAIN handler[h].ds =>
                    RECEIVED_IMAGES'[Len(RECEIVED_IMAGES')][f] = <<"U","n","k","n","o","w","n">>
      ]_vars

\* C7: the notifications handled so far, whatever their interleaving with each
\* other and with reads, have left exactly one record each in RECEIVED_IMAGES
\* (N records once N notifications are handled), and every record of the list
\* and every record a reader has obtained carries exactly the five fields.
C7_ReceiptsCountedAndWhole ==
    /\ Len(RECEIVED_IMAGES) = notified - Cardinality(InFlight)
    /\ \A i \in 1..Len(RECEIVED_IMAGES) : DOMAIN RECEIVED_IMAGES[i] = FiveFields
    /\ \A r \in Readers : \A i \in 1..Len(reader[r].out) :
          DOMAIN reader[r].out[i] = FiveFields

\* witness of C7: every notification has been handled and a read that started
\* before the last append has returned some but not all of the tenant's records
C7_Witness ==
    /\ notified = MaxNotifications /\ InFlight = {}
    /\ \E r \in Readers :
          /\ reader[r].pc = "done" /\ reader[r].code # <<>>
          /\ reader[r].out # <<>>
          /\ Len(reader[r].out) < Len(received_images_for_code(RECEIVED_IMAGES, reader[r].code))

-----------------------------------------------------------------------------
(* Exam lifecycle *)

\* the records of the patients documents, as <<path, record>>
PatientRecords ==
    UNION {{<<path, files[path].patients[i]>> : i \in 1..Len(files[path].patients)} :
             path \in DOMAIN files \ {SESSIONS_FILE}}

ExamOf(rec) == GetOr(rec, "last_exam", EmptyDict)

\* C9: without a transition to Ordered in between, started_at, completed_at and
\* reported_at hold the clock of the first transition into their stage and keep
\* it on every later transition (ordered_at holds the clock of the last order);
\* a stage never entered since the last order has no timestamp. So Ordered,
\* Started, Completed, Reported on a fresh patient leaves four timestamps, each
\* written once.
C9_StageStampedOnce ==
    \A pr \in PatientRecords : \A st \in Stages :
        LET key == <<pr[1], pr[2].pid, StageKey(st)>>
            ex == ExamOf(pr[2])
        IN  IF key \in DOMAIN firstAt
            THEN StageKey(st) \in DOMAIN ex /\ ex[StageKey(st)] = firstAt[key]
            ELSE StageKey(st) \notin DOMAIN ex

\* witness of C9: all four stages stamped, and Started entered again after
\* Completed at a later second than the first time
C9_Witness ==
    \E pr \in PatientRecords :
        LET ex == ExamOf(pr[2])
        IN  /\ {"ordered_at", "started_at", "completed_at", "reported_at"} \subseteq DOMAIN ex
            /\ "status" \in DOMAIN ex /\ ex.status = Started
            /\ ex.updated_at > ex.started_at

\* the state of last_exam right after an order placed at second t
FreshlyOrdered(ex, t) ==
    /\ "status" \in DOMAIN ex /\ ex.status = Ordered
    /\ "ordered_at" \in DOMAIN ex /\ ex.ordered_at = t
    /\ DOMAIN ex \cap {"started_at", "completed_at", "reported_at"} = {}

\* C10: a transition to Ordered of an existing patient is carried out whatever
\* the current status (Reported included) and leaves status Ordered, ordered_at
\* at the current time and started_at, completed_at, reported_at cleared.
C10_OrderRestartsLifecycle ==
    [][\A c \in Clients, p \in ExamPids, a \in RawAccs :
          (/\ patient_exists(files, TenantOf(c), prefix_for_student(p, session[c]))
           /\ ExamTransition(c, p, a, <<>>, Ordered))
          => FreshlyOrdered(LastExam(files', TenantOf(c), prefix_for_student(p, session[c])), now)
      ]_vars

\* witness of C10: an order placed on an exam that was Reported
C10_Witness ==
    \E pr \in PatientRecords :
        /\ <<pr[1], pr[2].pid>> \in DOMAIN prevStatus
        /\ prevStatus[<<pr[1], pr[2].pid>>] = Reported
        /\ FreshlyOrdered(ExamOf(pr[2]), now)

-----------------------------------------------------------------------------
(* Prefixed identifiers *)

\* C31: every patient record written through patient registration by a
\* session with tenant code c has an identifier that starts with c + '-';
\* prefix_for_student is idempotent: a (stripped) identifier that already
\* starts with c + '-' is returned unchanged, any other non-empty identifier
\* gets c + '-' prepended.
C31_RegisteredIdsArePrefixed ==
    /\ \A r \in registeredUnder : StartsWith(r[2], r[3] \o <<"-">>)
    /\ \A c \in PrefixClients, p \in PrefixPids :
          LET code == get_student_code(session[c])
              v == Strip(p)
              once == prefix_for_student(p, session[c])
          IN  code # <<>> =>
                /\ prefix_for_student(once, session[c]) = once
                /\ StartsWith(v, code \o <<"-">>) => once = v
                /\ (v # <<>> /\ ~StartsWith(v, code \o <<"-">>)) => once = code \o <<"-">> \o v

\* witness of C31: tenant SUS has registered an identifier typed with its own
\* prefix and one typed with another tenant's prefix
C31_Witness ==
    /\ \E r \in registeredUnder :
          r[2] = <<"S","U","S","-","2">> /\ r[3] = <<"S","U","S">>
    /\ \E r \in registeredUnder :
          r[2] = <<"S","U","S","-","O","T","H","-","3">> /\ r[3] = <<"S","U","S">>

-----------------------------------------------------------------------------
(* Study rows *)

\* C32: in each row produced by received_study_groups, LastTimestamp is the
\* greatest timestamp among the records of that study, whatever the order of
\* the records in the input list.
C32_LastTimestampIsGreatest ==
    called.fn = "received_study_groups" =>
        LET rows == called.arg
            out == called.outcome.value
        IN  \A k \in 1..Len(out) :
              LET stamps == {rows[i].Timestamp :
                               i \in {j \in 1..Len(rows) :
                                        StudyUid(rows[j]) = out[k].StudyInstanceUID}}
              IN  /\ out[k].LastTimestamp \in stamps
                  /\ \A t \in stamps : t <= out[k].LastTimestamp

-----------------------------------------------------------------------------
(* Instance metadata *)

\* the study that contains the instance in the archive
StudyOfInstance(instance_id) ==
    orthanc.studies[orthanc.series[orthanc.instances[instance_id].ParentSeries].ParentStudy]

\* C33: pacs_instance returns an instance's metadata to a tenant only if the
\* study that actually contains that instance is visible to the tenant, for
\* every value of the 'series' query parameter.
C33_InstanceOnlyFromVisibleStudy ==
    [][\A c \in Clients, id \in DOMAIN orthanc.instances,
          se \in DOMAIN orthanc.series \cup {MissingId, <<>>} :
          (/\ pacs_instance(c, id, se)
           /\ response'.status = 200
           /\ orthanc.instances[id].PatientID \in response'.pids)
          => _study_visible_for_student(StudyOfInstance(id), get_student_code(session[c]))
      ]_vars

-----------------------------------------------------------------------------
(* Generated codes as tenants *)

\* C34: for any two distinct codes of the shape produced by
\* generate_session_codes, no patient identifier prefixed with one code is
\* visible to the other under the prefix rule, and the two codes map to
\* different patients and reports documents.
C34_GeneratedCodesAreSeparate ==
    LET out == generate_session_codes(gen.n, gen.tokens)
        codes == {out[k] : k \in 1..Len(out)}
    IN  \A a \in codes : \A b \in codes \ {a} :
          /\ \A local \in {<<"1">>, b \o <<"-","1">>} :
                LET pid == prefix_for_student(local, a)
                    record == [PatientName |-> <<"A","n","n">>, PatientID |-> pid,
                               StudyInstanceUID |-> <<"1",".","3">>, Modality |-> <<"C","T">>,
                               Timestamp |-> 0]
                    study == [PatientMainDicomTags |-> [PatientID |-> pid]]
                IN  /\ StartsWith(pid, a \o <<"-">>)
                    /\ received_images_for_code(<<record>>, a) = <<record>>
                    /\ received_images_for_code(<<record>>, b) = <<>>
                    /\ ~_study_visible_for_student(study, b)
          /\ patients_file_for_code(a) # patients_file_for_code(b)
          /\ reports_file_for_code(a) # reports_file_for_code(b)

\* witness of C34: a run has returned three codes, two of them with the same
\* first suffix character
C34_Witness ==
    /\ GenReturns(gen.n, gen.tokens)
    /\ Len(generate_session_codes(gen.n, gen.tokens)) = GenCap
    /\ \E k, m \in 1..Len(generate_session_codes(gen.n, gen.tokens)) :
          /\ k # m
          /\ generate_session_codes(gen.n, gen.tokens)[k][5] =
             generate_session_codes(gen.n, gen.tokens)[m][5]

-----------------------------------------------------------------------------
(* Read failures *)

\* the identifiers of the records of a list
PidsOf(patients) == {patients[i].pid : i \in 1..Len(patients)}

\* C35: an upsert_patient whose load step failed and whose save step succeeded
\* leaves in the document every patient it held before, except those the
\* retention cap removes (none while the document is below the cap).
C35_FailedLoadKeepsPatients ==
    [][\A code \in ReadFailCodes, n \in ReadFailNames, p \in ReadFailPids :
          (/\ UpsertPatient(code, n, p, TRUE)
           /\ Len(load_patients(files, code)) < KeepLast)
          => PidsOf(load_patients(files, code)) \subseteq PidsOf(load_patients(files', code))
      ]_vars

-----------------------------------------------------------------------------
(* Status and its timestamp *)

\* C36: in every reachable state of a patient record, a last_exam whose status
\* is one of the four stages carries that stage's own timestamp, whatever the
\* order of the transitions was.
C36_StatusHasItsTimestamp ==
    \A pr \in PatientRecords :
        LET ex == ExamOf(pr[2])
        IN  ("status" \in DOMAIN ex /\ ex.status \in Stages)
            => StageKey(ex.status) \in DOMAIN ex

\* witness of C36: a record that is Reported without having been Started or
\* Completed since its last order
C36_Witness ==
    \E pr \in PatientRecords :
        LET ex == ExamOf(pr[2])
        IN  /\ "status" \in DOMAIN ex /\ ex.status = Reported
            /\ "reported_at" \in DOMAIN ex
            /\ "started_at" \notin DOMAIN ex
            /\ "completed_at" \notin DOMAIN ex

-----------------------------------------------------------------------------
(* Frame of the two writers of a patients document *)

\* the record with key `k` removed from a record, to compare the rest
Without(rec, keys) == [k \in DOMAIN rec \ keys |-> rec[k]]

\* C37: upsert_patient on an identifier already present changes only that
\* record's name and updated_at: created_at, last_exam and the position in
\* the list stay, and every other record of the tenant is unchanged.
C37_UpsertChangesNameOnly ==
    [][\A code \in FrameCodes, n \in FrameNames, p \in FramePids :
          (/\ UpsertPatient(code, n, p, FALSE)
           /\ FindPid(load_patients(files, code), p) # 0)
          => LET before == load_patients(files, code)
                 after == load_patients(files', code)
                 i == FindPid(before, p)
             IN  /\ Len(after) = Len(before)
                 /\ \A j \in 1..Len(before) : j # i => after[j] = before[j]
                 /\ after[i].pid = p
                 /\ after[i].name = n
                 /\ GetOr(after[i], "updated_at", 0 - 1) = now
                 /\ Without(after[i], {"name", "updated_at"})
                      = Without(before[i], {"name", "updated_at"})
      ]_vars

\* witness of C37: the first of two records, with an exam, has been renamed
\* at a later second than it was created and than its exam was updated
C37_Witness ==
    /\ called.fn = "upsert_patient"
    /\ \E code \in FrameCodes :
          LET patients == load_patients(files, code)
          IN  /\ Len(patients) = 2
              /\ "last_exam" \in DOMAIN patients[1]
              /\ "updated_at" \in DOMAIN patients[1]
              /\ patients[1].updated_at = now
              /\ patients[1].created_at < now
              /\ patients[1].last_exam.updated_at < now
              /\ patients[1].name = <<"B","o","b">>

\* C38: update_patient_last_exam for an empty identifier or an identifier not
\* in the tenant's patients document writes nothing (the documents are as
\* before, no record is created); for an identifier that is present only that
\* one record is modified.
C38_UpdateTouchesOneRecord ==
    [][\A code \in FrameCodes, p \in FrameExamPids, a \in FrameAccs, st \in FrameStatuses :
          UpdatePatientLastExam(code, p, a, st)
          => LET before == load_patients(files, code)
                 after == load_patients(files', code)
                 i == FindPid(before, Strip(p))
                 path == patients_file_for_code(code)
             IN  IF Strip(p) = <<>> \/ i = 0
                 THEN files' = files
                 ELSE /\ DOMAIN files' = DOMAIN files
                      /\ \A other \in DOMAIN files \ {path} : files'[other] = files[other]
                      /\ Len(after) = Len(before)
                      /\ after[i].pid = Strip(p)
                      /\ \A j \in 1..Len(before) : j # i => after[j] = before[j]
      ]_vars

\* witness of C38: the document holds two records, the last call named an
\* identifier that is in neither of them at a later second than the last
\* write, and an earlier call has given one of the two records an exam
C38_Witness ==
    /\ called.fn = "update_patient_last_exam"
    /\ called.arg = <<"S","U","S","-","9">>
    /\ \E code \in FrameCodes :
          LET patients == load_patients(files, code)
          IN  /\ Len(patients) = 2
              /\ files[patients_file_for_code(code)].updated_at < now
              /\ "last_exam" \in DOMAIN patients[1]
              /\ "last_exam" \notin DOMAIN patients[2]

-----------------------------------------------------------------------------
(* Reports and the tenant of the received images *)

\* the received records of study `uid` whose PatientID starts with code + '-'
OwnImagesOf(code, uid) ==
    {i \in 1..Len(RECEIVED_IMAGES) :
        /\ StartsWith(GetOr(RECEIVED_IMAGES[i], "PatientID", <<>>), code \o <<"-">>)
        /\ Strip(GetOr(RECEIVED_IMAGES[i], "StudyInstanceUID", <<>>)) = Strip(uid)}

\* the patients of a tenant's document whose exam is Reported
ReportedPids(fs, code) ==
    LET patients == load_patients(fs, code)
    IN  {patients[i].pid : i \in {k \in 1..Len(patients) :
            GetOr(GetOr(patients[k], "last_exam", EmptyDict), "status", None) = Reported}}

\* C39: workstation_report stores a report for tenant t and moves a patient to
\* Reported only if a received image whose PatientID starts with t + '-'
\* exists for the requested study at that time; the stored report's PatientID
\* then starts with t + '-'; a study of which only other tenants' images were
\* received yields no report and no transition.
C39_ReportsNeedOwnImage ==
    [][\A c \in TenantClients, uid \in TenantUids, text \in TenantTexts :
          WorkstationReport(c, uid, text)
          => LET code == get_student_code(session[c])
                 after == load_reports(files', code)
             IN  /\ OwnImagesOf(code, uid) = {} => files' = files
                 /\ files' # files
                    => /\ OwnImagesOf(code, uid) # {}
                       /\ after # <<>>
                       /\ StartsWith(after[Len(after)].PatientID, code \o <<"-">>)
                       /\ \A path \in DOMAIN files' :
                             (path \notin DOMAIN files \/ files'[path] # files[path])
                             => path \in {reports_file_for_code(code), patients_file_for_code(code)}
                       /\ ReportedPids(files', code) \ ReportedPids(files, code)
                            \subseteq {after[Len(after)].PatientID}
      ]_vars

\* witness of C39: tenant SUS has a report and a Reported patient SUS-1 while
\* the list also holds images of OTH for the same study and for another one,
\* and OTH has no report
C39_Witness ==
    /\ load_reports(files, <<"S","U","S">>) # <<>>
    /\ <<"S","U","S","-","1">> \in ReportedPids(files, <<"S","U","S">>)
    /\ load_reports(files, <<"O","T","H">>) = <<>>
    /\ \E i, j \in 1..Len(RECEIVED_IMAGES) :
          /\ RECEIVED_IMAGES[i].PatientID = <<"O","T","H","-","1">>
          /\ RECEIVED_IMAGES[i].StudyInstanceUID = <<"1",".","3">>
          /\ RECEIVED_IMAGES[j].PatientID = <<"O","T","H","-","1">>
          /\ RECEIVED_IMAGES[j].StudyInstanceUID = <<"2",".","5">>

-----------------------------------------------------------------------------
(* The order of the steps of a scan *)

\* the status of the record `pid` of tenant `code`, None without record or exam
StatusOf(fs, code, pid) ==
    IF patient_exists(fs, code, pid) THEN GetOr(LastExam(fs, code, pid), "status", None)
    ELSE None

\* C40: within one scan request the exam is moved to Started first, before
\* any image is sent; it is moved to Completed only afterwards and only if
\* the archive accepted an image; a scan whose transfer fails leaves the
\* status at Started.
C40_StartedThenCompletedIfStored ==
    [][\A w \in ScanWorkers :
          LET me == worker[w]
              code == me.local.code
          IN  /\ \A c \in ScanClients, p \in ScanPids, a \in ScanAccs :
                    ScanBegin(w, c, p, a)
                    => /\ orthanc' = orthanc
                       /\ patient_exists(files, get_student_code(session[c]),
                                         prefix_for_student(p, session[c]))
                          => StatusOf(files', get_student_code(session[c]),
                                      prefix_for_student(p, session[c])) = Started
              /\ \A ok \in BOOLEAN, retag \in BOOLEAN, fp \in FilePids :
                    ScanSend(w, ok, retag, fp)
                    => /\ files' = files
                       /\ StatusOf(files, code, me.pid) \in {Started, None}
                       /\ orthanc' # orthanc => worker'[w].pc = "sent_ok"
              /\ (ScanFinish(w) /\ me.pc = "sent_failed")
                    => /\ files' = files
                       /\ StatusOf(files', code, me.pid) \in {Started, None}
              /\ (ScanFinish(w) /\ me.pc = "sent_ok")
                    => /\ DOMAIN orthanc.instances # {}
                       /\ patient_exists(files, code, me.pid)
                          => /\ StatusOf(files', code, me.pid) = Completed
                             /\ StatusOf(files, code, me.pid) \in {Started, None}
              /\ \A code2 \in ScanCodes, p \in ScanPids :
                    LET pid2 == prefix_for_student(p, code2)
                    IN  (/\ StatusOf(files', code2, pid2) = Completed
                         /\ StatusOf(files, code2, pid2) # Completed)
                        => /\ me.pc = "sent_ok"
                           /\ worker'[w].pc = "idle"
      ]_vars

\* witness of C40: a scan of an exam that an earlier scan had completed has
\* moved it back to Started, and its transfer has failed
C40_Witness ==
    \E w \in ScanWorkers :
        /\ worker[w].pc = "sent_failed"
        /\ StatusOf(files, worker[w].local.code, worker[w].pid) = Started
        /\ "completed_at" \in DOMAIN LastExam(files, worker[w].local.code, worker[w].pid)
        /\ LastExam(files, worker[w].local.code, worker[w].pid).updated_at
             > LastExam(files, worker[w].local.code, worker[w].pid).completed_at

====
